---------------------------- MODULE Spec2Model ----------------------------
(***************************************************************************)
(* State-machine model of the seacat-auth login handshake                  *)
(* (authn/handler.py), the session hierarchy (cookie/service.py,           *)
(* authn/handler.py logout) and the OAuth2 authorize flow                  *)
(* (openidconnect/handler/authorize.py).                                   *)
(*                                                                         *)
(* Every HTTP request runs its handler from one suspension point (await)   *)
(* to the next.  The requests in flight are a bag of frames (the handler's *)
(* locals and its position); the storage collections are the shared state. *)
(***************************************************************************)
EXTENDS Integers, FiniteSets, Sequences, Bags, TLC

(***************************************************************************)
(* Bounds of the model                                                     *)
(***************************************************************************)
MaxLoginSessions == 1
MaxConcurrentRequests == 2
MaxSessions == 2
MaxTime == 1

UNBOUND == "UNBOUND"      \* a Python local that was never assigned
NONE == "NONE"            \* Python None: a request parameter that is absent

(***************************************************************************)
(* Configured ceiling of login attempts of a login session.                *)
(***************************************************************************)
LoginAttempts == 3

(***************************************************************************)
(* Configured lifetime of a root session, in clock ticks.                  *)
(***************************************************************************)
SessionExpiration == 2

LSID == 1 .. MaxLoginSessions
SID == 1 .. MaxSessions
CODE == 1 .. MaxSessions

(***************************************************************************)
(* Credentials directory (CredentialsService / credential providers).      *)
(***************************************************************************)
Credentials ==
  [ alice |-> [Type |-> "mongodb", suspended |-> FALSE],
    robot |-> [Type |-> "m2m",     suspended |-> FALSE],
    zed   |-> [Type |-> "mongodb", suspended |-> TRUE ] ]

CredentialIds == DOMAIN Credentials

Idents == CredentialIds \cup {"nobody"}

\* CredentialsService.locate(ident): the credentials id, or "" when none
Locate(ident) == IF ident \in CredentialIds THEN ident ELSE ""

\* Credentials that may complete an interactive login
CanLogin(cid) ==
  /\ cid \in CredentialIds
  /\ Credentials[cid].Type # "m2m"
  /\ ~Credentials[cid].suspended

VARIABLES
  loginSessions,     \* login session collection: lsid -> login session
  lsidSeq,           \* number of login session ids issued so far
  authenticateCalls, \* per login session id: calls of authenticate() so far
  requests,          \* bag of the requests in flight (their frames)
  reply,             \* reply of the request that ended last
  sessions,          \* session collection: sid -> session
  sidSeq,            \* number of session ids issued so far
  codes,             \* authorization code collection: code -> session id
  codeSeq,           \* number of authorization codes issued so far
  audit,             \* audit records appended by the request of the session
                     \* endpoints that ended last
  now,               \* the clock
  tenants,           \* tenant collection (TenantProvider): the tenant ids
  assignments,       \* tenant assignments: credentials id -> its tenants, in
                     \* the order of assignment
  resources,         \* resource collection "rs": resource id -> document
  roles,             \* role collection: role id -> the resources of the role
  assignedRoles,     \* role assignments: credentials id -> set of role ids
  totp,              \* collection "totp": credentials id -> active secret
  preparedTotp       \* collection "tos": session id -> prepared secret

vars == <<loginSessions, lsidSeq, authenticateCalls, requests, reply,
          sessions, sidSeq, codes, codeSeq, audit, now,
          tenants, assignments, resources, roles, assignedRoles,
          totp, preparedTotp>>

\* State of the login handshake / of the authorization code flow
loginVars == <<loginSessions, lsidSeq, authenticateCalls>>

oidcVars == <<codes, codeSeq, audit, now>>

\* State of the tenant service / of the resource and role services / of the
\* OTP service
tenantVars == <<tenants, assignments>>

rbacVars == <<resources, roles, assignedRoles>>

otpVars == <<totp, preparedTotp>>

\* The collections that the login handshake and the session endpoints leave
\* alone
adminVars == <<tenantVars, rbacVars, otpVars>>

\* The collections as the login handshake and the session endpoints find
\* them: one tenant that every credentials is assigned to, no resource
\* document or role of the administration, no TOTP secret
InitTenantVars ==
  /\ tenants = {"acme"}
  /\ assignments = [cid \in CredentialIds |-> <<"acme">>]

InitRbacVars ==
  /\ resources = <<>>
  /\ roles = <<>>
  /\ assignedRoles = [cid \in CredentialIds |-> {}]

InitOtpVars ==
  /\ totp = [cid \in CredentialIds |-> {}]
  /\ preparedTotp = <<>>

InitAdmin == InitTenantVars /\ InitRbacVars /\ InitOtpVars

(***************************************************************************)
(* Bags of request frames                                                  *)
(***************************************************************************)
Add(B, f) == B (+) SetToBag({f})

Remove(B, f) == B (-) SetToBag({f})

Replace(B, f, g) == Add(Remove(B, f), g)

(***************************************************************************)
(* Login session store (AuthenticationService)                             *)
(***************************************************************************)
\* A login session as create() stores it: full attempt ceiling
NewLoginSession(cid) ==
  [CredentialsId |-> cid, LoginAttemptsLeft |-> LoginAttempts, Version |-> 0]

\* get_login_session(lsid) raises KeyError unless the id is stored
LoginSessionExists(ls) == ls \in DOMAIN loginSessions

\* update_login_session(login_session, ...): optimistic concurrency, the
\* write goes through only on the version that was read
CanUpdateLoginSession(ls, read) ==
  /\ LoginSessionExists(ls)
  /\ loginSessions[ls].Version = read.Version

UpdatedLoginSession(read, n) ==
  [read EXCEPT !.LoginAttemptsLeft = n, !.Version = read.Version + 1]

\* delete_login_session(lsid): unconditional, idempotent
DeleteLoginSession(ls) ==
  [x \in DOMAIN loginSessions \ {ls} |-> loginSessions[x]]

\* authenticate(login_session, request_data): every factor of the chosen
\* descriptor must verify; a fake login session never authenticates
Authenticate(login_session, factors_ok) ==
  login_session.CredentialsId # "" /\ factors_ok

(***************************************************************************)
(* Authorization model (RoleService, ResourceService, session builders)    *)
(***************************************************************************)
\* The scopes of an authorization: the global scope "*" and one tenant
Scopes == {"*", "acme"}

\* authz/resource/service.py 83-89, as far as the model has resources
\* ("authz:tenant:access": access to all tenants)
GlobalOnlyResources ==
  {"authz:superuser", "authz:impersonate", "authz:tenant:access"}

\* Resources of the roles assigned to each credentials, per scope.  The
\* roles of robot and zed list global-only resources under the tenant.
AssignedResources ==
  [ alice |-> [s \in Scopes |-> IF s = "*" THEN {"authz:impersonate"}
                                          ELSE {"blog:read"}],
    robot |-> [s \in Scopes |-> IF s = "*" THEN {"authz:superuser", "authz:impersonate"}
                                          ELSE {"authz:superuser", "authz:tenant:access"}],
    zed   |-> [s \in Scopes |-> IF s = "*" THEN {"blog:write", "authz:tenant:access"}
                                          ELSE {"authz:impersonate", "blog:read"}] ]

\* The elements of a list
Range(list) == {list[i] : i \in DOMAIN list}

\* Resources left out of the sessions derived from the root session: no
\* exclusion at all
ExcludeResources_none(impersonator_session_id) == {}

\* cookie/service.py 139-143: the dangerous resources are removed from
\* impersonated sessions.  impersonator_session_id = 0: None.
ExcludeResources(impersonator_session_id) ==
  IF impersonator_session_id # 0
    THEN {"authz:superuser", "authz:impersonate"}
    ELSE {}

\* The authorization with the resources of the roles taken as they are
\* assigned: the global-only resources stay under the tenants
ComputeAuthorization_as_assigned(cid, tenant_scope, exclude_resources) ==
  [s \in {"*"} \cup tenant_scope |->
     ( IF s = "*" THEN AssignedResources[cid]["*"]
       ELSE (IF s \in Scopes THEN AssignedResources[cid][s] ELSE {})
              \cup AssignedResources[cid]["*"] )
     \ exclude_resources]

\* authz_session_builder(credentials_id, tenants, exclude_resources): for
\* the global scope and each of the tenants the resources of the assigned
\* roles (tenant_scope: the tenants), the global ones included in the
\* tenant's set, no global-only resource under a tenant, and
\* exclude_resources taken away last
ComputeAuthorization(cid, tenant_scope, exclude_resources) ==
  [s \in {"*"} \cup tenant_scope |->
     ( IF s = "*" THEN AssignedResources[cid]["*"]
       ELSE ((IF s \in Scopes THEN AssignedResources[cid][s] ELSE {})
               \cup AssignedResources[cid]["*"])
              \ GlobalOnlyResources )
     \ exclude_resources]

\* has_resource_access(authz, None, [resource]): the global scope holds the
\* resource, or the superuser resource
HasResourceAccess(authz, resource) ==
  \/ "authz:superuser" \in authz["*"]
  \/ resource \in authz["*"]

(***************************************************************************)
(* Session store (SessionService), as far as login needs it                *)
(***************************************************************************)
\* ImpersonatorSessionId = 0: None.  Cookie: the session has a cookie id.
\* IsAnonymous: Authentication.IsAnonymous, set by an anonymous login only.
NewRootSession(cid) ==
  [Type |-> "root", ParentSessionId |-> 0, CredentialsId |-> cid,
   ExpiresAt |-> now + SessionExpiration,
   ImpersonatorSessionId |-> 0, Cookie |-> TRUE, IsAnonymous |-> FALSE,
   Authz |-> ComputeAuthorization(cid, Range(assignments[cid]), {})]

(***************************************************************************)
(* Replies of the login endpoints                                          *)
(*                                                                         *)
(* "FAILED_401" is the body {"result": "FAILED"} with status 401; "OK_200" *)
(* the encrypted OK body with the session cookie; "PROLOGUE_200" the       *)
(* prologue reply (lsid, lds, key); "ERROR_<exception>" an exception that  *)
(* leaves the handler, which the web framework turns into its error reply. *)
(***************************************************************************)
Reply(op, result) == [op |-> op, result |-> result]

\* A request is accepted while fewer than MaxConcurrentRequests are in flight
MayStart == BagCardinality(requests) < MaxConcurrentRequests

\* A request of the session endpoints ends: its reply, and the audit
\* records it has appended
Respond(r, records) ==
  /\ reply' = r
  /\ audit' = records

\* The request goes on
NoReply == UNCHANGED <<reply, audit>>

\* Login sessions found in storage at startup: prepared by
\* prepare_seacat_login for real credentials, not yet used
InitLogin ==
  /\ InitAdmin
  /\ \E k \in 0 .. MaxLoginSessions :
       /\ lsidSeq = k
       /\ loginSessions = [ls \in 1 .. k |-> NewLoginSession("alice")]
  /\ requests = EmptyBag
  /\ reply = Reply("none", "NONE")
  /\ authenticateCalls = [ls \in LSID |-> 0]
  /\ sessions = <<>>
  /\ sidSeq = 0
  /\ codes = <<>>
  /\ codeSeq = 0
  /\ audit = <<>>
  /\ now = 0

(***************************************************************************)
(* AuthenticationHandler.login_prologue                                    *)
(***************************************************************************)
\* Line 128 reads the local credentials_id; no line of the function assigns
\* it before (lines 100-126), so the read raises UnboundLocalError
PrologueCredentialsId(ident) == UNBOUND

\* Lines 100-168.  Lines 123-126 reuse the login session named by "lsid" or
\* create one; line 128 then raises, so lines 129-168 never run: no
\* descriptors are prepared and no reply is built.
login_prologue(ident, lsid_in) ==
  LET cid == PrologueCredentialsId(ident) IN
  /\ MayStart
  /\ IF lsid_in # 0
       THEN UNCHANGED <<loginSessions, lsidSeq>>
       ELSE /\ lsidSeq < MaxLoginSessions
            /\ lsidSeq' = lsidSeq + 1
            /\ loginSessions' =
                 [x \in DOMAIN loginSessions \cup {lsidSeq + 1} |->
                    IF x = lsidSeq + 1 THEN NewLoginSession("")
                    ELSE loginSessions[x]]
  /\ reply' = Reply("login_prologue",
       IF lsid_in # 0 /\ ~LoginSessionExists(lsid_in) THEN "ERROR_KeyError"
       ELSE IF cid = UNBOUND THEN "ERROR_UnboundLocalError"
       ELSE "PROLOGUE_200")
  /\ UNCHANGED <<requests, authenticateCalls, sessions, sidSeq>>
  /\ UNCHANGED oidcVars
  /\ UNCHANGED adminVars

(***************************************************************************)
(* AuthenticationHandler.login                                             *)
(***************************************************************************)
\* The locals of login(): its position, lsid and login_session
Frame(pc, ls, login_session) ==
  [op |-> "login", pc |-> pc, lsid |-> ls, login_session |-> login_session]

LoginFrames == {f \in BagToSet(requests) : f.op = "login"}

\* Lines 184-195: locate the login session; KeyError replies FAILED
login_get(ls) ==
  /\ MayStart
  /\ IF LoginSessionExists(ls)
       THEN /\ requests' = Add(requests, Frame("check", ls, loginSessions[ls]))
            /\ UNCHANGED reply
       ELSE /\ reply' = Reply("login", "FAILED_401")
            /\ UNCHANGED requests
  /\ UNCHANGED <<loginSessions, lsidSeq, authenticateCalls, sessions, sidSeq>>
  /\ UNCHANGED oidcVars
  /\ UNCHANGED adminVars

\* Off by one: a login session at zero still gets an attempt
NoAttemptsLeft_below_zero(login_session) == login_session.LoginAttemptsLeft < 0

\* Line 197: the login session has no attempts left
NoAttemptsLeft(login_session) == login_session.LoginAttemptsLeft <= 0

\* The attempt is not charged: the counter is stored as it was read
AttemptsAfterCall_not_charged(login_session) == login_session.LoginAttemptsLeft

\* Lines 210-213: the value stored as login_attempts_left
AttemptsAfterCall(login_session) == login_session.LoginAttemptsLeft - 1

\* The handler carries on when the update was refused as stale
login_record_attempt_ignore_conflict(f) ==
  LET upd == UpdatedLoginSession(f.login_session, AttemptsAfterCall(f.login_session))
  IN
  /\ BagIn(f, requests) /\ f.pc = "check"
  /\ IF NoAttemptsLeft(f.login_session)
       THEN /\ loginSessions' = DeleteLoginSession(f.lsid)
            /\ requests' = Remove(requests, f)
            /\ reply' = Reply("login", "FAILED_401")
       ELSE /\ loginSessions' =
                 IF CanUpdateLoginSession(f.lsid, f.login_session)
                   THEN [loginSessions EXCEPT ![f.lsid] = upd]
                   ELSE loginSessions
            /\ requests' = Replace(requests, f, Frame("decrypt", f.lsid, upd))
            /\ UNCHANGED reply
  /\ UNCHANGED <<lsidSeq, authenticateCalls, sessions, sidSeq>>
  /\ UNCHANGED oidcVars
  /\ UNCHANGED adminVars

\* The login session is deleted by the call that brings the counter to 0
login_record_attempt_delete_at_zero(f) ==
  /\ BagIn(f, requests) /\ f.pc = "check"
  /\ IF NoAttemptsLeft(f.login_session)
       THEN /\ loginSessions' = DeleteLoginSession(f.lsid)
            /\ requests' = Remove(requests, f)
            /\ reply' = Reply("login", "FAILED_401")
       ELSE IF CanUpdateLoginSession(f.lsid, f.login_session)
         THEN LET upd == UpdatedLoginSession(
                            f.login_session, AttemptsAfterCall(f.login_session))
              IN /\ loginSessions' =
                      IF upd.LoginAttemptsLeft = 0
                        THEN DeleteLoginSession(f.lsid)
                        ELSE [loginSessions EXCEPT ![f.lsid] = upd]
                 /\ requests' = Replace(requests, f, Frame("decrypt", f.lsid, upd))
                 /\ UNCHANGED reply
         ELSE /\ requests' = Remove(requests, f)
              /\ reply' = Reply("login", "ERROR_VersionConflict")
              /\ UNCHANGED loginSessions
  /\ UNCHANGED <<lsidSeq, authenticateCalls, sessions, sidSeq>>
  /\ UNCHANGED oidcVars
  /\ UNCHANGED adminVars

\* Lines 197-213: no attempts left -> delete the login session and reply
\* FAILED; else record the attempt.  A refused update raises and the handler
\* does not catch it.
login_record_attempt(f) ==
  /\ BagIn(f, requests) /\ f.pc = "check"
  /\ IF NoAttemptsLeft(f.login_session)
       THEN /\ loginSessions' = DeleteLoginSession(f.lsid)
            /\ requests' = Remove(requests, f)
            /\ reply' = Reply("login", "FAILED_401")
       ELSE IF CanUpdateLoginSession(f.lsid, f.login_session)
         THEN LET upd == UpdatedLoginSession(
                            f.login_session, AttemptsAfterCall(f.login_session))
              IN /\ loginSessions' = [loginSessions EXCEPT ![f.lsid] = upd]
                 /\ requests' = Replace(requests, f, Frame("decrypt", f.lsid, upd))
                 /\ UNCHANGED reply
         ELSE /\ requests' = Remove(requests, f)
              /\ reply' = Reply("login", "ERROR_VersionConflict")
              /\ UNCHANGED loginSessions
  /\ UNCHANGED <<lsidSeq, authenticateCalls, sessions, sidSeq>>
  /\ UNCHANGED oidcVars
  /\ UNCHANGED adminVars

\* Lines 215-240: login_session.decrypt(payload) raises on a payload that was
\* not encrypted for this login session and nothing around the call catches
\* it; else authenticate validates the factors, and a rejected attempt
\* replies FAILED.  Reading and decrypting the body touches no shared state,
\* so it is one step with the authenticate call.
login_authenticate(f, decryptable, factors_ok) ==
  LET authenticated == Authenticate(f.login_session, factors_ok) IN
  /\ BagIn(f, requests) /\ f.pc = "decrypt"
  /\ IF ~decryptable
       THEN /\ requests' = Remove(requests, f)
            /\ reply' = Reply("login", "ERROR_DecryptionError")
            /\ UNCHANGED authenticateCalls
       ELSE /\ authenticateCalls' = [authenticateCalls EXCEPT ![f.lsid] = @ + 1]
            /\ IF authenticated
                 THEN /\ requests' = Replace(requests, f, [f EXCEPT !.pc = "login"])
                      /\ UNCHANGED reply
                 ELSE /\ requests' = Remove(requests, f)
                      /\ reply' = Reply("login", "FAILED_401")
  /\ UNCHANGED <<loginSessions, lsidSeq, sessions, sidSeq>>
  /\ UNCHANGED oidcVars
  /\ UNCHANGED adminVars

\* Lines 242-279: AuthenticationService.login promotes the login session into
\* a root session (or refreshes the request's own root session of the same
\* credentials) and deletes the login session
login_do_login(f, root_session) ==
  /\ BagIn(f, requests) /\ f.pc = "login"
  /\ root_session \in DOMAIN sessions \cup {0}
  /\ IF /\ root_session # 0
        /\ sessions[root_session].Type = "root"
        /\ sessions[root_session].CredentialsId = f.login_session.CredentialsId
       THEN UNCHANGED <<sessions, sidSeq>>
       ELSE /\ sidSeq < MaxSessions
            /\ sidSeq' = sidSeq + 1
            /\ sessions' =
                 [x \in DOMAIN sessions \cup {sidSeq + 1} |->
                    IF x = sidSeq + 1
                    THEN NewRootSession(f.login_session.CredentialsId)
                    ELSE sessions[x]]
  /\ loginSessions' = DeleteLoginSession(f.lsid)
  /\ requests' = Remove(requests, f)
  /\ reply' = Reply("login", "OK_200")
  /\ UNCHANGED <<lsidSeq, authenticateCalls>>
  /\ UNCHANGED oidcVars
  /\ UNCHANGED adminVars

\* Passive expiry of a login session (lazy check at read time and sweep)
expire_login_session(ls) ==
  /\ LoginSessionExists(ls)
  /\ loginSessions' = DeleteLoginSession(ls)
  /\ UNCHANGED <<lsidSeq, requests, reply, authenticateCalls, sessions, sidSeq>>
  /\ UNCHANGED oidcVars
  /\ UNCHANGED adminVars

NextLogin ==
  \/ \E ident \in Idents, ls \in LSID \cup {0} : login_prologue(ident, ls)
  \/ \E ls \in LSID : login_get(ls)
  \/ \E f \in LoginFrames : login_record_attempt(f)
  \/ \E f \in LoginFrames, decryptable, factors_ok \in BOOLEAN :
       login_authenticate(f, decryptable, factors_ok)
  \/ \E f \in LoginFrames, rs \in SID \cup {0} : login_do_login(f, rs)
  \/ \E ls \in LSID : expire_login_session(ls)

SpecLogin == InitLogin /\ [][NextLogin]_vars

(***************************************************************************)
(* Properties of the login handshake (checked under SpecLogin)             *)
(***************************************************************************)
\* Frame f has recorded its attempt and has not replied yet
PastUpdate(f) == f.pc \in {"decrypt", "login"}

\* The step is taken by the request with frame f / moves a request to frame g
StepOf(f) == CopiesIn(f, requests') < CopiesIn(f, requests)

StepTo(g) == CopiesIn(g, requests') > CopiesIn(g, requests)

RejectedStep(f) ==
  /\ StepOf(f) /\ f.pc = "decrypt"
  /\ authenticateCalls'[f.lsid] = authenticateCalls[f.lsid] + 1
  /\ ~StepTo([f EXCEPT !.pc = "login"])

\* C2 as claimed: the third failed login() call on a login session created
\* with 3 attempts leaves the login session deleted.
C2_DeletedByThirdFailure ==
  [][\A f \in LoginFrames :
       (RejectedStep(f) /\ f.login_session.LoginAttemptsLeft = LoginAttempts - 3)
       => f.lsid \notin DOMAIN loginSessions'
    ]_vars

\* C2 amended: the third failed login() call leaves the login session stored
\* with LoginAttemptsLeft = 0; the next login() call that reads it deletes it
\* and replies FAILED without calling authenticate; a deleted login session
\* id is never found again.
C2_DeletedByFourthCall ==
  [][/\ \A f \in LoginFrames :
          /\ ( /\ RejectedStep(f)
               /\ f.login_session.LoginAttemptsLeft = LoginAttempts - 3
               /\ LoginSessionExists(f.lsid) )
             => /\ f.lsid \in DOMAIN loginSessions'
                /\ loginSessions'[f.lsid].LoginAttemptsLeft = 0
                /\ reply' = Reply("login", "FAILED_401")
          /\ ( /\ StepOf(f) /\ f.pc = "check"
               /\ f.login_session.LoginAttemptsLeft <= 0 )
             => /\ f.lsid \notin DOMAIN loginSessions'
                /\ requests' = Remove(requests, f)
                /\ reply' = Reply("login", "FAILED_401")
                /\ authenticateCalls' = authenticateCalls
     /\ \A ls \in 1 .. lsidSeq :
          ls \notin DOMAIN loginSessions => ls \notin DOMAIN loginSessions'
    ]_vars

\* C2 witness: after the third failed call, with no request in flight, the
\* login session is still stored, with no attempts left
C2_Witness ==
  /\ requests = EmptyBag
  /\ \E ls \in DOMAIN loginSessions :
       /\ loginSessions[ls].LoginAttemptsLeft = 0
       /\ authenticateCalls[ls] = 3

\* C33: a login() call that has read a login session with LoginAttemptsLeft
\* <= 0 ends by deleting the login session and replying FAILED/401, and
\* authenticate is not called; authenticate is called only by a call that
\* read attempts left; and the call that brings the counter to 0 leaves the
\* login session stored: it is deleted by the next call that reads it.
C33_ExhaustedDeletedOnNextAccess ==
  [][/\ \A f \in LoginFrames :
          /\ ( /\ StepOf(f) /\ f.pc = "check"
               /\ NoAttemptsLeft(f.login_session) )
             => /\ f.lsid \notin DOMAIN loginSessions'
                /\ BagCardinality(requests') = BagCardinality(requests) - 1
                /\ reply' = Reply("login", "FAILED_401")
                /\ authenticateCalls' = authenticateCalls
          /\ ( /\ StepOf(f) /\ f.pc = "check"
               /\ f.login_session.LoginAttemptsLeft = 1
               /\ LoginSessionExists(f.lsid)
               /\ loginSessions[f.lsid] = f.login_session )
             => /\ f.lsid \in DOMAIN loginSessions'
                /\ loginSessions'[f.lsid].LoginAttemptsLeft = 0
                /\ reply' = reply
     /\ \A ls \in LSID :
          authenticateCalls'[ls] # authenticateCalls[ls]
          => \E f \in LoginFrames :
               /\ StepOf(f) /\ f.pc = "decrypt" /\ f.lsid = ls
               /\ f.login_session.LoginAttemptsLeft >= 0
    ]_vars

\* C33 witness: a login session that authenticate was called for as often as
\* it had attempts has been deleted by a later call, which was answered
\* FAILED
C33_Witness ==
  /\ requests = EmptyBag
  /\ reply = Reply("login", "FAILED_401")
  /\ \E ls \in 1 .. lsidSeq :
       /\ ls \notin DOMAIN loginSessions
       /\ authenticateCalls[ls] = LoginAttempts

\* C3: no two login() requests on the same login session that have recorded
\* their attempt hold the same LoginAttemptsLeft value, and authenticate is
\* called at most LoginAttempts times per login session.
C3_NoSharedAttempt ==
  /\ \A f \in LoginFrames : PastUpdate(f) => CopiesIn(f, requests) = 1
  /\ \A f1, f2 \in LoginFrames :
       (f1 # f2 /\ PastUpdate(f1) /\ PastUpdate(f2) /\ f1.lsid = f2.lsid)
       => f1.login_session.LoginAttemptsLeft # f2.login_session.LoginAttemptsLeft
  /\ \A ls \in LSID : authenticateCalls[ls] <= LoginAttempts

\* C3 witness: of two racing requests one was refused as stale while another
\* request goes on towards authenticate
C3_Witness ==
  /\ reply = Reply("login", "ERROR_VersionConflict")
  /\ \E f \in LoginFrames : PastUpdate(f)

\* C4 as claimed: every failing outcome of login() named by the claim
\* (unknown login session, no attempts left, payload not decryptable, factor
\* rejected) replies {"result": "FAILED"} / 401.  A refused stale update is
\* not among them and is left out.
C4_UniformFailureReply ==
  ( /\ reply.op = "login"
    /\ reply.result \notin {"OK_200", "ERROR_VersionConflict"} )
  => reply.result = "FAILED_401"

\* C5 as claimed: login_prologue replies (lsid, lds, key) for a known as for
\* an unknown ident.
C5_PrologueReplyShape ==
  reply.op = "login_prologue" => reply.result = "PROLOGUE_200"

\* C6 as claimed: for an ident of m2m or suspended credentials login_prologue
\* continues with credentials_id = "" and replies with a fake login session.
C6_FakeSessionForM2MAndSuspended ==
  [][\A ident \in Idents, ls \in LSID \cup {0} :
       ( /\ Locate(ident) # "" /\ ~CanLogin(Locate(ident))
         /\ login_prologue(ident, ls) )
       => /\ PrologueCredentialsId(ident) = ""
          /\ reply' = Reply("login_prologue", "PROLOGUE_200")
    ]_vars

(***************************************************************************)
(* Session store (SessionService)                                          *)
(***************************************************************************)
Min(a, b) == IF a <= b THEN a ELSE b

\* An optional integer is a set of at most one integer: None is the empty set
None == {}

Some(optional) == CHOOSE n \in optional : TRUE

\* Every session that hangs below sid through ParentSessionId links
RECURSIVE Descendants(_, _)
Descendants(S, sid) ==
  LET children == {x \in DOMAIN S : S[x].ParentSessionId = sid}
  IN children \cup UNION {Descendants(S, c) : c \in children}

\* delete(session_id): the session and all its descendants, in one
\* transaction
DeleteSession(sid) ==
  [x \in DOMAIN sessions \ ({sid} \cup Descendants(sessions, sid)) |-> sessions[x]]

\* get / get_by: NotFound when the session is absent or past its expiry
SessionFound(sid) ==
  /\ sid \in DOMAIN sessions
  /\ now < sessions[sid].ExpiresAt

\* create_session(..., parent_session_id, expiration): the expiry of a child
\* is capped by its parent's; with no expiration it is the parent's
ChildExpiresAt(expiration, parent_expires_at) ==
  IF expiration = None THEN parent_expires_at
  ELSE Min(now + Some(expiration), parent_expires_at)

\* builders: what the session builders of the caller contribute
NewClientSession(session_type, parent, expiration, parent_expires_at, builders) ==
  [Type |-> session_type, ParentSessionId |-> parent,
   CredentialsId |-> builders.CredentialsId,
   ExpiresAt |-> ChildExpiresAt(expiration, parent_expires_at),
   ImpersonatorSessionId |-> builders.ImpersonatorSessionId,
   Cookie |-> session_type = "cookie",
   Authz |-> builders.Authz]

\* Root sessions found in storage at startup, left by earlier logins
InitSession ==
  /\ InitAdmin
  /\ loginSessions = <<>>
  /\ lsidSeq = 0
  /\ authenticateCalls = [ls \in LSID |-> 0]
  /\ requests = EmptyBag
  /\ reply = Reply("none", "NONE")
  /\ now = 0
  /\ \E k \in 1 .. MaxSessions - 1 :
       /\ sidSeq = k
       /\ sessions = [sid \in 1 .. k |-> NewRootSession("alice")]
  /\ codes = <<>>
  /\ codeSeq = 0
  /\ audit = <<>>

\* The clock advances
Tick ==
  /\ now < MaxTime
  /\ now' = now + 1
  /\ UNCHANGED <<requests, reply, audit, sessions, sidSeq, codes, codeSeq>>
  /\ UNCHANGED loginVars
  /\ UNCHANGED adminVars

(***************************************************************************)
(* AuthenticationHandler.logout                                            *)
(***************************************************************************)
\* Lines 286-293: get_session_by_request_cookie returns None for a request
\* without cookie or with a cookie that matches no session; it raises
\* neither of the two exceptions the handler catches, so line 295 reads
\* session.Session of None.  cookie = 0: the request has no cookie.
logout(cookie) ==
  /\ MayStart
  /\ IF cookie # 0 /\ SessionFound(cookie)
       THEN /\ requests' = Add(requests,
                 [op |-> "logout", pc |-> "delete", session |-> cookie,
                  impersonator_session_id |-> sessions[cookie].ImpersonatorSessionId])
            /\ NoReply
       ELSE /\ Respond(Reply("logout", "ERROR_AttributeError"), <<>>)
            /\ UNCHANGED requests
  /\ UNCHANGED <<sessions, sidSeq, codes, codeSeq, now>>
  /\ UNCHANGED loginVars
  /\ UNCHANGED adminVars

\* The session is left in storage
logout_delete_skipped(f) ==
  /\ BagIn(f, requests) /\ f.op = "logout" /\ f.pc = "delete"
  /\ requests' = Remove(requests, f)
  /\ Respond(Reply("logout", "OK_200"), <<>>)
  /\ UNCHANGED <<sessions, sidSeq, codes, codeSeq, now>>
  /\ UNCHANGED loginVars
  /\ UNCHANGED adminVars

\* Lines 295-307: delete the session, build the OK reply and drop the
\* cookie; the request of a session that is not impersonated ends here
\* (lines 320-323), that of an impersonated one goes on to line 308
logout_delete(f) ==
  /\ BagIn(f, requests) /\ f.op = "logout" /\ f.pc = "delete"
  /\ sessions' = DeleteSession(f.session)
  /\ IF f.impersonator_session_id = 0
       THEN /\ requests' = Remove(requests, f)
            /\ Respond(Reply("logout", "OK_200"), <<>>)
       ELSE /\ requests' = Replace(requests, f, [f EXCEPT !.pc = "restore"])
            /\ NoReply
  /\ UNCHANGED <<sidSeq, codes, codeSeq, now>>
  /\ UNCHANGED loginVars
  /\ UNCHANGED adminVars

\* The OK reply of a logout that has set the cookie of the impersonator
\* session again
LogoutRestored(impersonator_session_id) ==
  [op |-> "logout", result |-> "OK_200", set_cookie |-> impersonator_session_id]

\* The cookie is set again whenever the impersonator session is found
logout_restore_any(f) ==
  /\ BagIn(f, requests) /\ f.op = "logout" /\ f.pc = "restore"
  /\ requests' = Remove(requests, f)
  /\ reply' = IF SessionFound(f.impersonator_session_id)
               THEN LogoutRestored(f.impersonator_session_id)
               ELSE Reply("logout", "OK_200")
  /\ audit' = <<>>
  /\ UNCHANGED <<sessions, sidSeq, codes, codeSeq, now>>
  /\ UNCHANGED loginVars
  /\ UNCHANGED adminVars

\* Lines 308-323: get the impersonator session; when it is found and has a
\* cookie, set that cookie in the reply
logout_restore(f) ==
  /\ BagIn(f, requests) /\ f.op = "logout" /\ f.pc = "restore"
  /\ requests' = Remove(requests, f)
  /\ reply' = IF /\ SessionFound(f.impersonator_session_id)
                  /\ sessions[f.impersonator_session_id].Cookie
               THEN LogoutRestored(f.impersonator_session_id)
               ELSE Reply("logout", "OK_200")
  /\ audit' = <<>>
  /\ UNCHANGED <<sessions, sidSeq, codes, codeSeq, now>>
  /\ UNCHANGED loginVars
  /\ UNCHANGED adminVars

(***************************************************************************)
(* URL queries (urllib.parse)                                              *)
(*                                                                         *)
(* A query is a sequence of <<key, value>> pairs; a dict of parse_qs is a  *)
(* sequence of <<key, values>>, in the order the keys were first inserted. *)
(***************************************************************************)
DictHas(d, k) == \E i \in 1 .. Len(d) : d[i][1] = k

\* d[k] = values: in place when the key is there, else at the end
DictPut(d, k, values) ==
  IF DictHas(d, k)
    THEN [i \in 1 .. Len(d) |-> IF d[i][1] = k THEN <<k, values>> ELSE d[i]]
    ELSE Append(d, <<k, values>>)

\* The values of key k in d, none when the key is not there
DictGet(d, k) ==
  IF DictHas(d, k) THEN d[CHOOSE i \in 1 .. Len(d) : d[i][1] = k][2] ELSE <<>>

\* parse_qs(query): the values of every key, in order; a pair with a blank
\* value is dropped (keep_blank_values=False)
RECURSIVE ParseQsInto(_, _)
ParseQsInto(d, query) ==
  IF query = <<>> THEN d
  ELSE LET k == Head(query)[1]
           v == Head(query)[2]
       IN ParseQsInto(IF v = "" THEN d ELSE DictPut(d, k, Append(DictGet(d, k), v)),
                      Tail(query))

parse_qs(query) == ParseQsInto(<<>>, query)

\* urlencode(d, doseq=True): one pair per value of every key, in order
RECURSIVE urlencode(_)
urlencode(d) ==
  IF d = <<>> THEN <<>>
  ELSE [i \in 1 .. Len(Head(d)[2]) |-> <<Head(d)[1], Head(d)[2][i]>>]
         \o urlencode(Tail(d))

(***************************************************************************)
(* AuthorizeHandler: the replies and the audit records                     *)
(***************************************************************************)
\* Parameters of the authorize requests that the model keeps fixed
ClientId == "app"

Scope == "openid"

RedirectUri == "https://app/cb"

\* The text of authorization code c (generate_authorization_code)
AuthorizationCode(c) ==
  IF c = 1 THEN "code-1" ELSE IF c = 2 THEN "code-2" ELSE "code-3"

\* Lines 710-718: audit_authorize_error(client_id, error, ...)
AuditAuthorizeError(error) ==
  [code |-> "AUTHORIZE_ERROR", client_id |-> ClientId, error |-> error]

\* Lines 701-707: audit_authorize_success(session)
AuditAuthorizeSuccess ==
  [code |-> "AUTHORIZE_SUCCESS", client_id |-> ClientId]

\* Lines 655-698: reply_with_authentication_error(error, redirect_uri,
\* error_description, state): a redirect to redirect_uri, or to the
\* authorize endpoint when redirect_uri is None, with the error parameters
\* in the query
reply_with_authentication_error(error, redirect_uri, error_description, state) ==
  [op |-> "authorize", result |-> "AUTH_ERROR",
   location |-> IF redirect_uri = NONE THEN "/openidconnect/authorize"
                ELSE redirect_uri,
   error |-> error, error_description |-> error_description, state |-> state]

\* The loopback query leaves the state out
reply_with_redirect_to_login_stateless(state, code_challenge, code_challenge_method) ==
  [op |-> "authorize", result |-> "REDIRECT_LOGIN", client_id |-> ClientId,
   callback_query |->
     <<<<"response_type", "code">>, <<"scope", Scope>>,
       <<"client_id", ClientId>>, <<"redirect_uri", RedirectUri>>>>]

\* Lines 539-590 and 775-787: reply_with_redirect_to_login(response_type,
\* scope, client_id, redirect_uri, state, code_challenge,
\* code_challenge_method): status 404 with the link to the login page, which
\* gets the client id and the callback URI.  The query of the callback URI
\* is the authorize_query_params: their keys differ and the authorize
\* endpoint they are put onto has no query of its own.
reply_with_redirect_to_login(state, code_challenge, code_challenge_method) ==
  [op |-> "authorize", result |-> "REDIRECT_LOGIN", client_id |-> ClientId,
   callback_query |->
     <<<<"response_type", "code">>, <<"scope", Scope>>,
       <<"client_id", ClientId>>, <<"redirect_uri", RedirectUri>>>>
     \o (IF state # NONE THEN <<<<"state", state>>>> ELSE <<>>)
     \o (IF code_challenge # NONE
           THEN <<<<"code_challenge", code_challenge>>>>
                \o (IF code_challenge_method \notin {NONE, "none"}
                      THEN <<<<"code_challenge_method", code_challenge_method>>>>
                      ELSE <<>>)
           ELSE <<>>)]

\* Lines 592-653 and 440-449: reply_with_factor_setup_redirect(session,
\* missing_factors, response_type, scope, client_id, redirect_uri, state,
\* login_parameters): a redirect to the home screen of the web UI, whose
\* fragment names the factors to set up and the authorize URI to come back
\* to.  The query of that URI is the authorize_query_params; the function
\* takes no code_challenge and no code_challenge_method.
reply_with_factor_setup_redirect(missing_factors, state) ==
  [op |-> "authorize", result |-> "REDIRECT_FACTOR_SETUP",
   setup |-> missing_factors,
   authorize_query |->
     <<<<"prompt", "login">>, <<"response_type", "code">>, <<"scope", Scope>>,
       <<"client_id", ClientId>>, <<"redirect_uri", RedirectUri>>>>
     \o (IF state # NONE THEN <<<<"state", state>>>> ELSE <<>>)]

\* Lines 489-536: the redirect to redirect_uri of the success path:
\* url_qs = parse_qs(url.query); url_qs["state"] = state when there is one;
\* url_qs["code"] = the authorization code; the query is urlencode(url_qs).
\* redirect_uri_query: the query of redirect_uri
SuccessfulResponse(redirect_uri_query, state, code) ==
  LET url_qs == parse_qs(redirect_uri_query)
      with_state == IF state # NONE THEN DictPut(url_qs, "state", <<state>>)
                    ELSE url_qs
  IN [op |-> "authorize", result |-> "CODE_302", location |-> RedirectUri,
      query |-> urlencode(DictPut(with_state, "code", <<code>>))]

(***************************************************************************)
(* AuthorizeHandler.authorize and authentication_code_flow                 *)
(***************************************************************************)
Prompts == {NONE, "none", "login", "select_account", "consent"}

\* Values of the non-standard authorize parameter "expiration"
Expirations == {NONE, "1", "3", "soon"}

\* int(s) of a decimal string; any other string raises ValueError
IntOfString == [s \in {"1", "3"} |-> IF s = "1" THEN 1 ELSE 3]

\* client_dict.get("authorize_anonymous_users", False): the client of the
\* model has not set it
AuthorizeAnonymousUsers == FALSE

\* A session of any type counts as the root session of the request
RootSessionOfRequest_any_type(session) ==
  IF session # 0 /\ SessionFound(session) THEN session ELSE 0

\* Lines 337-347: request.Session counts only if it is a root session, and
\* an anonymous one only if the client authorizes anonymous users
RootSessionOfRequest(session) ==
  IF /\ session # 0 /\ SessionFound(session)
     /\ sessions[session].Type = "root"
     /\ ~(sessions[session].IsAnonymous /\ ~AuthorizeAnonymousUsers)
    THEN session ELSE 0

\* Lines 451-453: the requested expiration as an integer, None when absent
RequestedExpiration(expiration) ==
  IF expiration = NONE THEN None ELSE {IntOfString[expiration]}

\* AuthenticationService.EnforceFactors: the factors the configuration
\* enforces for everybody
EnforceFactors == {"totp"}

Factors == {"totp", "smscode"}

\* The factors the credentials enforce are left out
_get_factors_to_setup_app_only(login_factors, cred_enforce_factors) ==
  EnforceFactors \ login_factors

\* Lines 469-486: the enforced factors that are not among the factors of the
\* login descriptor of the session, and on top of them every factor the
\* credentials enforce
_get_factors_to_setup(login_factors, cred_enforce_factors) ==
  (EnforceFactors \ login_factors) \cup cred_enforce_factors

\* The checks of lines 172-335 that an authorize request can fail
Faults ==
  {"missing_parameter", "unsupported_response_type", "client_not_found",
   "invalid_client_secret", "invalid_redirect_uri", "client_error",
   "invalid_code_challenge_method", "invalid_code_challenge", "no_openid_scope"}

\* Lines 165-335, for a request that fails one of the checks: required
\* parameters (172-182), response_type (196-223), the client (243-290), PKCE
\* (292-319), the openid scope (324-335).  The reply to an unsupported
\* response_type (217-223) passes error_description twice, as third
\* positional argument and by keyword: TypeError leaves the handler.
\* redirect_uri = NONE: the request has no redirect_uri.
authorize(fault, redirect_uri, state) ==
  /\ MayStart
  /\ redirect_uri = NONE => fault = "missing_parameter"
  /\ CASE fault = "missing_parameter" ->
            Respond(reply_with_authentication_error("invalid_request",
                      redirect_uri, "Missing required parameter", state), <<>>)
       [] fault = "unsupported_response_type" ->
            Respond(Reply("authorize", "ERROR_TypeError"),
                    <<AuditAuthorizeError("unsupported_response_type")>>)
       [] fault = "client_not_found" ->
            Respond(reply_with_authentication_error("invalid_request",
                      redirect_uri, "Invalid client_id", state), <<>>)
       [] fault = "invalid_client_secret" ->
            Respond(reply_with_authentication_error("unauthorized_client",
                      redirect_uri, "Unauthorized client", state), <<>>)
       [] fault = "invalid_redirect_uri" ->
            Respond(reply_with_authentication_error("invalid_request",
                      NONE, "Invalid redirect_uri.", state), <<>>)
       [] fault \in {"client_error", "invalid_code_challenge_method",
                     "invalid_code_challenge"} ->
            Respond(reply_with_authentication_error("invalid_request",
                      redirect_uri, "Client error.", state),
                    <<AuditAuthorizeError("client_error")>>)
       [] fault = "no_openid_scope" ->
            Respond(reply_with_authentication_error("invalid_scope",
                      redirect_uri, "Scope must contain 'openid'", state),
                    <<AuditAuthorizeError("invalid_scope")>>)
  /\ UNCHANGED <<requests, sessions, sidSeq, codes, codeSeq, now>>
  /\ UNCHANGED loginVars
  /\ UNCHANGED adminVars

\* The request has passed the checks of lines 172-335 (required parameters,
\* response_type=code, client, PKCE, openid scope).
\* Lines 337-453: resolve the root session and the prompt, authorize the
\* tenants by scope, look for factors to set up, read the requested
\* expiration.  request: the parameters read here (session = 0: the request
\* carries no session); reads: the outcome of the tenant authorization, the
\* factors of the login descriptor of the root session and the factors its
\* credentials enforce.
\* The reads of lines 419-433 (tenants, roles, credentials) touch no state
\* of this model, so the lines are one step.  A denial raised by
\* get_tenants_by_scope meets "except exceptions.TenantNotFoundError", a name
\* the exceptions module does not define, so AttributeError leaves the
\* handler.  Line 386 passes the request as the error, the error code as
\* redirect_uri and redirect_uri as error_description.
authentication_code_flow(request, reads) ==
  LET root_session == RootSessionOfRequest(request.session)
      prompt == request.prompt
  IN
  /\ MayStart
  /\ IF prompt \notin {NONE, "none", "login", "select_account"}
       THEN /\ Respond(reply_with_authentication_error("invalid_request",
                         RedirectUri, "Invalid parameter value for prompt",
                         request.state),
                       <<AuditAuthorizeError("invalid_request")>>)
            /\ UNCHANGED requests
     ELSE IF prompt = "login" /\ root_session # 0
       THEN /\ requests' = Add(requests,
                 [op |-> "authorize", pc |-> "delete_root",
                  root_session |-> root_session, state |-> request.state,
                  code_challenge |-> request.code_challenge,
                  code_challenge_method |-> request.code_challenge_method])
            /\ NoReply
     ELSE IF prompt = "none" /\ root_session = 0
       THEN /\ Respond(reply_with_authentication_error("<Request>",
                         "login_required", RedirectUri, request.state),
                       <<AuditAuthorizeError("login_required")>>)
            /\ UNCHANGED requests
     ELSE IF root_session = 0 \/ prompt = "select_account"
       THEN /\ Respond(reply_with_redirect_to_login(request.state,
                         request.code_challenge, request.code_challenge_method),
                       <<>>)
            /\ UNCHANGED requests
     ELSE IF ~reads.access_granted
       THEN /\ Respond(Reply("authorize", "ERROR_AttributeError"), <<>>)
            /\ UNCHANGED requests
     ELSE IF _get_factors_to_setup(reads.login_factors,
                                   reads.cred_enforce_factors) # {}
       THEN /\ Respond(reply_with_factor_setup_redirect(
                         _get_factors_to_setup(reads.login_factors,
                                               reads.cred_enforce_factors),
                         request.state), <<>>)
            /\ UNCHANGED requests
     ELSE IF request.expiration # NONE /\ request.expiration \notin DOMAIN IntOfString
       THEN /\ Respond(Reply("authorize", "ERROR_ValueError"), <<>>)
            /\ UNCHANGED requests
     ELSE /\ requests' = Add(requests,
               [op |-> "authorize", pc |-> "create",
                root_session |-> root_session, state |-> request.state,
                redirect_uri_query |-> request.redirect_uri_query,
                tenants |-> reads.tenants,
                requested_expiration |-> RequestedExpiration(request.expiration)])
          /\ NoReply
  /\ UNCHANGED <<sessions, sidSeq, codes, codeSeq, now>>
  /\ UNCHANGED loginVars
  /\ UNCHANGED adminVars

\* The root session is left in storage
authentication_code_flow_prompt_login_keep(f) ==
  /\ BagIn(f, requests) /\ f.op = "authorize" /\ f.pc = "delete_root"
  /\ requests' = Remove(requests, f)
  /\ Respond(reply_with_redirect_to_login(f.state,
               f.code_challenge, f.code_challenge_method), <<>>)
  /\ UNCHANGED <<sessions, sidSeq, codes, codeSeq, now>>
  /\ UNCHANGED loginVars
  /\ UNCHANGED adminVars

\* Lines 362-414, prompt=login: delete the root session, then root_session
\* is None and the request is redirected to the login page
authentication_code_flow_prompt_login(f) ==
  /\ BagIn(f, requests) /\ f.op = "authorize" /\ f.pc = "delete_root"
  /\ sessions' = DeleteSession(f.root_session)
  /\ requests' = Remove(requests, f)
  /\ Respond(reply_with_redirect_to_login(f.state,
               f.code_challenge, f.code_challenge_method), <<>>)
  /\ UNCHANGED <<sidSeq, codes, codeSeq, now>>
  /\ UNCHANGED loginVars
  /\ UNCHANGED adminVars

\* The requested expiration is not handed on
ClientSessionExpiration_dropped(requested_expiration) == None

\* cookie/service.py 196-201: expiration=requested_expiration
ClientSessionExpiration(requested_expiration) == requested_expiration

\* cookie/service.py 139-188: the session builders of a client session, from
\* the root session the request holds: the credentials of the root session,
\* their authorization without the resources excluded for an impersonated
\* root session, and the impersonation data of the root session.  The text
\* of create_oidc_session is not at hand; it is taken to build alike.
SessionBuilders(root_session, tenant_scope) ==
  [CredentialsId |-> root_session.CredentialsId,
   Authz |-> ComputeAuthorization(root_session.CredentialsId, tenant_scope,
               ExcludeResources(root_session.ImpersonatorSessionId)),
   ImpersonatorSessionId |-> root_session.ImpersonatorSessionId]

\* authorize.py 455-462 and cookie/service.py 128-201: the session builders
\* and the call of create_session, which first reads the parent session
\* (NotFound when it is gone)
create_cookie_client_session(f) ==
  /\ BagIn(f, requests) /\ f.op = "authorize" /\ f.pc = "create"
  /\ IF f.root_session \in DOMAIN sessions
       THEN /\ requests' = Replace(requests, f,
                 [op |-> "authorize", pc |-> "insert", state |-> f.state,
                  redirect_uri_query |-> f.redirect_uri_query,
                  requested_expiration |-> f.requested_expiration,
                  parent_session_id |-> f.root_session,
                  expiration |-> ClientSessionExpiration(f.requested_expiration),
                  parent_expires_at |-> sessions[f.root_session].ExpiresAt,
                  session_builders |->
                    SessionBuilders(sessions[f.root_session], f.tenants)])
            /\ NoReply
       ELSE /\ requests' = Remove(requests, f)
            /\ Respond(Reply("authorize", "ERROR_KeyError"), <<>>)
  /\ UNCHANGED <<sessions, sidSeq, codes, codeSeq, now>>
  /\ UNCHANGED loginVars
  /\ UNCHANGED adminVars

\* create_session, second storage operation: insert the new session
\* document, of type "cookie" when the scope has "cookie" (authorize.py 455)
create_session(f, cookie_scope) ==
  /\ BagIn(f, requests) /\ f.op = "authorize" /\ f.pc = "insert"
  /\ sidSeq < MaxSessions
  /\ sidSeq' = sidSeq + 1
  /\ sessions' =
       [x \in DOMAIN sessions \cup {sidSeq + 1} |->
          IF x = sidSeq + 1
          THEN NewClientSession(IF cookie_scope THEN "cookie" ELSE "openidconnect",
                                f.parent_session_id,
                                f.expiration, f.parent_expires_at,
                                f.session_builders)
          ELSE sessions[x]]
  /\ requests' = Replace(requests, f,
       [op |-> "authorize", pc |-> "code", session |-> sidSeq + 1,
        state |-> f.state, redirect_uri_query |-> f.redirect_uri_query])
  /\ UNCHANGED <<reply, audit, codes, codeSeq, now>>
  /\ UNCHANGED loginVars
  /\ UNCHANGED adminVars

\* Lines 464-466 and 489-536: audit, mint the authorization code for the new
\* session and redirect to redirect_uri with the code
reply_with_successful_response(f) ==
  /\ BagIn(f, requests) /\ f.op = "authorize" /\ f.pc = "code"
  /\ codeSeq' = codeSeq + 1
  /\ codes' = [c \in DOMAIN codes \cup {codeSeq + 1} |->
                 IF c = codeSeq + 1 THEN f.session ELSE codes[c]]
  /\ requests' = Remove(requests, f)
  /\ Respond(SuccessfulResponse(f.redirect_uri_query, f.state,
                                AuthorizationCode(codeSeq + 1)),
             <<AuditAuthorizeSuccess>>)
  /\ UNCHANGED <<sessions, sidSeq, now>>
  /\ UNCHANGED loginVars
  /\ UNCHANGED adminVars

\* The authorize requests of the specifications of the session hierarchy:
\* no state, no PKCE, no query in redirect_uri
PlainRequests ==
  [session : SID \cup {0}, prompt : Prompts, expiration : {NONE},
   state : {NONE}, code_challenge : {NONE}, code_challenge_method : {"none"},
   redirect_uri_query : {<<>>}]

\* Reads with and without access to the tenants, of a login that used the
\* factor the application enforces
PlainReads ==
  [access_granted : BOOLEAN, tenants : {{"acme"}}, login_factors : {{"totp"}},
   cred_enforce_factors : {{}}]

DefaultReads ==
  [access_granted |-> TRUE, tenants |-> {"acme"}, login_factors |-> {"totp"},
   cred_enforce_factors |-> {}]

\* An authorize request that has passed the checks of lines 172-335 enters
\* authentication_code_flow.  It reads the outcome of the tenant
\* authorization only with a usable root session and without the prompts
\* login and select_account (lines 362-419), and its expiration only when
\* access is granted and no factor is to be set up (451): each is chosen
\* where the request reads it.  request.session is the session the request
\* was given (line 337): none, or a session that is stored.
StartAuthenticationCodeFlow(Requests, Reads, RequestedExpirations) ==
  /\ MayStart
  /\ \E request \in Requests :
       /\ request.session \in DOMAIN sessions \cup {0}
       /\ IF \/ request.prompt \notin {NONE, "none"}
             \/ RootSessionOfRequest(request.session) = 0
            THEN authentication_code_flow(request, DefaultReads)
            ELSE \E reads \in Reads :
              IF \/ ~reads.access_granted
                 \/ _get_factors_to_setup(reads.login_factors,
                                          reads.cred_enforce_factors) # {}
                THEN authentication_code_flow(request, reads)
                ELSE \E expiration \in RequestedExpirations :
                  authentication_code_flow(
                    [request EXCEPT !.expiration = expiration], reads)

(***************************************************************************)
(* CookieService.get_session_by_authorization_code                         *)
(***************************************************************************)
\* pop_session_by_authorization_code, first storage operation: find the code
\* and delete it, atomically
PopAuthorizationCode(code) == [c \in DOMAIN codes \ {code} |-> codes[c]]

\* The code is looked up and left in storage
get_session_by_authorization_code_keep(code) ==
  /\ MayStart
  /\ IF code \in DOMAIN codes
       THEN /\ requests' = Add(requests,
                 [op |-> "exchange", pc |-> "get", code |-> code,
                  session |-> codes[code]])
            /\ NoReply
       ELSE /\ Respond(Reply("exchange", "ERROR_KeyError"), <<>>)
            /\ UNCHANGED requests
  /\ UNCHANGED <<codes, sessions, sidSeq, codeSeq, now>>
  /\ UNCHANGED loginVars
  /\ UNCHANGED adminVars

\* cookie/service.py 124-125: exchange the code through
\* pop_session_by_authorization_code; an unknown code raises KeyError
get_session_by_authorization_code(code) ==
  /\ MayStart
  /\ IF code \in DOMAIN codes
       THEN /\ codes' = PopAuthorizationCode(code)
            /\ requests' = Add(requests,
                 [op |-> "exchange", pc |-> "get", code |-> code,
                  session |-> codes[code]])
            /\ NoReply
       ELSE /\ Respond(Reply("exchange", "ERROR_KeyError"), <<>>)
            /\ UNCHANGED <<requests, codes>>
  /\ UNCHANGED <<sessions, sidSeq, codeSeq, now>>
  /\ UNCHANGED loginVars
  /\ UNCHANGED adminVars

\* pop_session_by_authorization_code, second storage operation: get the
\* session the code was bound to
pop_session_by_authorization_code(f) ==
  /\ BagIn(f, requests) /\ f.op = "exchange" /\ f.pc = "get"
  /\ requests' = Remove(requests, f)
  /\ reply' = Reply("exchange",
       IF SessionFound(f.session) THEN "SESSION" ELSE "ERROR_KeyError")
  /\ audit' = <<>>
  /\ UNCHANGED <<sessions, sidSeq, codes, codeSeq, now>>
  /\ UNCHANGED loginVars
  /\ UNCHANGED adminVars

\* The session hierarchy: logout and the authorize flow, with the clock
NextSession ==
  \/ Tick
  \/ \E cookie \in SID \cup {0} : logout(cookie)
  \/ \E f \in BagToSet(requests) : logout_delete(f)
  \/ StartAuthenticationCodeFlow(PlainRequests, PlainReads, Expirations)
  \/ \E f \in BagToSet(requests) : authentication_code_flow_prompt_login(f)
  \/ \E f \in BagToSet(requests) : create_cookie_client_session(f)
  \/ \E f \in BagToSet(requests), cookie_scope \in BOOLEAN : create_session(f, cookie_scope)
  \/ \E f \in BagToSet(requests) : reply_with_successful_response(f)

SpecSession == InitSession /\ [][NextSession]_vars

\* The authorization codes: the authorize flow and the exchange of a code
NextCode ==
  \/ StartAuthenticationCodeFlow(PlainRequests, PlainReads, Expirations)
  \/ \E f \in BagToSet(requests) : authentication_code_flow_prompt_login(f)
  \/ \E f \in BagToSet(requests) : create_cookie_client_session(f)
  \/ \E f \in BagToSet(requests), cookie_scope \in BOOLEAN : create_session(f, cookie_scope)
  \/ \E f \in BagToSet(requests) : reply_with_successful_response(f)
  \/ \E code \in CODE : get_session_by_authorization_code(code)
  \/ \E f \in BagToSet(requests) : pop_session_by_authorization_code(f)

SpecCode == InitSession /\ [][NextCode]_vars

(***************************************************************************)
(* AuthenticationHandler.impersonate, impersonate_and_redirect             *)
(***************************************************************************)
\* A session opened by create_m2m_session for a machine: no parent, no cookie
NewM2MSession(cid) ==
  [NewRootSession(cid) EXCEPT !.Type = "m2m", !.Cookie = FALSE]

\* create_impersonated_session(impersonator_root_session, target_cid): a
\* root session of the target credentials that refers to the impersonator
\* session and has neither the superuser nor the impersonate resource
NewImpersonatedSession(impersonator_session_id, target_cid) ==
  [NewRootSession(target_cid) EXCEPT
     !.ImpersonatorSessionId = impersonator_session_id,
     !.Authz = ComputeAuthorization(target_cid, Range(assignments[target_cid]),
                 {"authz:superuser", "authz:impersonate"})]

\* Id of a session that was deleted before startup
DeletedSessionId == MaxSessions + 1

ImpersonateOps == {"impersonate", "impersonate_and_redirect"}

\* The credentials_id of the impersonate requests: credentials with the
\* superuser and the impersonate resource, and unknown credentials
ImpersonationTargets == {"robot", "nobody"}

\* Every request with a session passes
ImpersonateGate_open(session) ==
  session # 0 /\ SessionFound(session)

\* handler.py 417, 442: @access_control("authz:impersonate") lets the
\* request in when its session has access to the resource
ImpersonateGate(session) ==
  /\ session # 0 /\ SessionFound(session)
  /\ HasResourceAccess(sessions[session].Authz, "authz:impersonate")

\* Lines 417-434: the gate, then the impersonator root session is the
\* session of the request when it has no parent, else its parent session
\* (KeyError when the parent is gone).  session = 0: no session.
impersonate(session, target_cid) ==
  /\ MayStart
  /\ IF ~ImpersonateGate(session)
       THEN /\ Respond(Reply("impersonate", "DENIED"), <<>>)
            /\ UNCHANGED requests
     ELSE IF sessions[session].ParentSessionId = 0
       THEN /\ requests' = Add(requests,
                 [op |-> "impersonate", pc |-> "create",
                  impersonator_root_session |-> session,
                  target_cid |-> target_cid])
            /\ NoReply
     ELSE IF SessionFound(sessions[session].ParentSessionId)
       THEN /\ requests' = Add(requests,
                 [op |-> "impersonate", pc |-> "create",
                  impersonator_root_session |-> sessions[session].ParentSessionId,
                  target_cid |-> target_cid])
            /\ NoReply
     ELSE /\ Respond(Reply("impersonate", "ERROR_KeyError"), <<>>)
          /\ UNCHANGED requests
  /\ UNCHANGED <<sessions, sidSeq, codes, codeSeq, now>>
  /\ UNCHANGED loginVars
  /\ UNCHANGED adminVars

\* Lines 442-494: the gate, then the impersonator root session is the
\* session of the request when it is of type root, else its parent session
\* (KeyError when there is none or it is gone)
impersonate_and_redirect(session, target_cid) ==
  /\ MayStart
  /\ IF ~ImpersonateGate(session)
       THEN /\ Respond(Reply("impersonate_and_redirect", "DENIED"), <<>>)
            /\ UNCHANGED requests
     ELSE IF sessions[session].Type = "root"
       THEN /\ requests' = Add(requests,
                 [op |-> "impersonate_and_redirect", pc |-> "create",
                  impersonator_root_session |-> session,
                  target_cid |-> target_cid])
            /\ NoReply
     ELSE IF /\ sessions[session].ParentSessionId # 0
             /\ SessionFound(sessions[session].ParentSessionId)
       THEN /\ requests' = Add(requests,
                 [op |-> "impersonate_and_redirect", pc |-> "create",
                  impersonator_root_session |-> sessions[session].ParentSessionId,
                  target_cid |-> target_cid])
            /\ NoReply
     ELSE /\ Respond(Reply("impersonate_and_redirect", "ERROR_KeyError"), <<>>)
          /\ UNCHANGED requests
  /\ UNCHANGED <<sessions, sidSeq, codes, codeSeq, now>>
  /\ UNCHANGED loginVars
  /\ UNCHANGED adminVars

\* create_impersonated_session raises: AccessDenied when the access of the
\* impersonator was revoked, another exception for unknown target
\* credentials
CreateImpersonatedSessionRaises(target_cid, access_revoked) ==
  access_revoked \/ target_cid \notin CredentialIds

\* Lines 517-550, then 436-439 or 496-514.  An exception of
\* create_impersonated_session meets "except exceptions.AccessDeniedError",
\* a name the exceptions module does not define: evaluating it raises
\* AttributeError, which leaves the handler.  Otherwise the impersonated
\* session is stored and its cookie is set in the OK reply, or in the
\* redirect to the authorize endpoint once the client is found.
_impersonate(f, access_revoked, client_found) ==
  /\ BagIn(f, requests) /\ f.op \in ImpersonateOps /\ f.pc = "create"
  /\ requests' = Remove(requests, f)
  /\ audit' = <<>>
  /\ IF CreateImpersonatedSessionRaises(f.target_cid, access_revoked)
       THEN /\ reply' = Reply(f.op, "ERROR_AttributeError")
            /\ UNCHANGED <<sessions, sidSeq>>
       ELSE /\ sidSeq < MaxSessions
            /\ sidSeq' = sidSeq + 1
            /\ sessions' =
                 [x \in DOMAIN sessions \cup {sidSeq + 1} |->
                    IF x = sidSeq + 1
                    THEN NewImpersonatedSession(f.impersonator_root_session,
                                                f.target_cid)
                    ELSE sessions[x]]
            /\ reply' =
                 IF f.op = "impersonate"
                   THEN [op |-> f.op, result |-> "OK_200", set_cookie |-> sidSeq + 1]
                 ELSE IF client_found
                   THEN [op |-> f.op, result |-> "REDIRECT_AUTHORIZE",
                         set_cookie |-> sidSeq + 1]
                 ELSE Reply(f.op, "ERROR_KeyError")
  /\ UNCHANGED <<codes, codeSeq, now>>
  /\ UNCHANGED loginVars
  /\ UNCHANGED adminVars

\* Sessions found in storage at startup: the root session of a login or the
\* session of a machine, or an impersonated session whose impersonator has
\* logged out
InitImpersonate ==
  /\ InitAdmin
  /\ loginSessions = <<>>
  /\ lsidSeq = 0
  /\ authenticateCalls = [ls \in LSID |-> 0]
  /\ requests = EmptyBag
  /\ reply = Reply("none", "NONE")
  /\ now = 0
  /\ sidSeq = 1
  /\ \/ sessions = [sid \in {1} |-> NewRootSession("alice")]
     \/ sessions = [sid \in {1} |-> NewM2MSession("robot")]
     \/ \E target_cid \in CredentialIds :
          sessions = [sid \in {1} |->
                        NewImpersonatedSession(DeletedSessionId, target_cid)]
  /\ codes = <<>>
  /\ codeSeq = 0
  /\ audit = <<>>

\* Impersonation: the two impersonate endpoints, the authorize flow without
\* prompt, and logout
NextImpersonate ==
  \/ \E session \in SID \cup {0}, target_cid \in ImpersonationTargets :
       impersonate(session, target_cid)
  \/ \E session \in SID \cup {0}, target_cid \in ImpersonationTargets :
       impersonate_and_redirect(session, target_cid)
  \/ \E f \in BagToSet(requests), access_revoked, client_found \in BOOLEAN :
       _impersonate(f, access_revoked, client_found)
  \/ StartAuthenticationCodeFlow({request \in PlainRequests : request.prompt = NONE},
                                 {DefaultReads}, {NONE})
  \/ \E f \in BagToSet(requests) : create_cookie_client_session(f)
  \/ \E f \in BagToSet(requests), cookie_scope \in BOOLEAN : create_session(f, cookie_scope)
  \/ \E f \in BagToSet(requests) : reply_with_successful_response(f)
  \/ \E cookie \in SID \cup {0} : logout(cookie)
  \/ \E f \in BagToSet(requests) : logout_delete(f)
  \/ \E f \in BagToSet(requests) : logout_restore(f)

SpecImpersonate == InitImpersonate /\ [][NextImpersonate]_vars

(***************************************************************************)
(* The authorize endpoint on its own                                       *)
(***************************************************************************)
\* Values of the state parameter: absent, or an opaque text
States == {NONE, "xyz"}

\* The authorize requests that pass the checks of lines 172-335.  Of
\* code_challenge and code_challenge_method, validate_code_challenge_initialization
\* lets through both absent (the method then is "none", line 206) or a
\* challenge with its method; the requests with a challenge have a state.
AuthorizeRequests ==
  [session : SID \cup {0}, prompt : Prompts, expiration : {NONE},
   state : States, code_challenge : {NONE}, code_challenge_method : {"none"},
   redirect_uri_query : {<<>>}]
  \cup
  [session : SID \cup {0}, prompt : Prompts, expiration : {NONE},
   state : {"xyz"}, code_challenge : {"abc"}, code_challenge_method : {"S256"},
   redirect_uri_query : {<<>>}]

\* What authentication_code_flow reads in lines 419-433: whether the tenants
\* of the scope are granted, the factors of the login descriptor of the root
\* session, the factors its credentials enforce
\* (a denial reads no factors)
AuthorizeReads ==
  {reads \in [access_granted : BOOLEAN, tenants : {{"acme"}},
              login_factors : SUBSET Factors,
              cred_enforce_factors : SUBSET Factors] :
     ~reads.access_granted
       => reads.login_factors = {} /\ reads.cred_enforce_factors = {}}

\* Authorize requests of every kind: the ones a check of lines 172-335
\* rejects and the ones that enter authentication_code_flow
NextAuthorize ==
  \/ \E fault \in Faults, redirect_uri \in {NONE, RedirectUri}, state \in States :
       authorize(fault, redirect_uri, state)
  \/ StartAuthenticationCodeFlow(AuthorizeRequests, AuthorizeReads, {NONE})
  \/ \E f \in BagToSet(requests) : authentication_code_flow_prompt_login(f)
  \/ \E f \in BagToSet(requests) : create_cookie_client_session(f)
  \/ \E f \in BagToSet(requests), cookie_scope \in BOOLEAN : create_session(f, cookie_scope)
  \/ \E f \in BagToSet(requests) : reply_with_successful_response(f)

SpecAuthorize == InitSession /\ [][NextAuthorize]_vars

\* The requests that enter authentication_code_flow without prompt or with
\* a prompt for the login page
CodeFlowRequests ==
  {request \in AuthorizeRequests :
     request.prompt \in {NONE, "login", "select_account"}}

\* The code flow of sessions with access to the tenants and no factor to
\* set up
NextCodeFlow ==
  \/ StartAuthenticationCodeFlow(CodeFlowRequests, {DefaultReads}, {NONE})
  \/ \E f \in BagToSet(requests) : authentication_code_flow_prompt_login(f)
  \/ \E f \in BagToSet(requests) : create_cookie_client_session(f)
  \/ \E f \in BagToSet(requests), cookie_scope \in BOOLEAN : create_session(f, cookie_scope)
  \/ \E f \in BagToSet(requests) : reply_with_successful_response(f)

SpecCodeFlow == InitSession /\ [][NextCodeFlow]_vars

\* The requests that get to the factors: no prompt or prompt=none
FactorSetupRequests ==
  {request \in PlainRequests : request.prompt \in {NONE, "none"}}

NextFactorSetup ==
  \/ StartAuthenticationCodeFlow(FactorSetupRequests, AuthorizeReads, {NONE})
  \/ \E f \in BagToSet(requests) : create_cookie_client_session(f)
  \/ \E f \in BagToSet(requests), cookie_scope \in BOOLEAN : create_session(f, cookie_scope)
  \/ \E f \in BagToSet(requests) : reply_with_successful_response(f)

SpecFactorSetup == InitSession /\ [][NextFactorSetup]_vars

\* Queries of the redirect_uri a client has registered: none, a parameter,
\* a parameter given twice, a parameter without value, and parameters named
\* like the ones the reply adds
RedirectUriQueries ==
  {<<>>, <<<<"a", "1">>>>, <<<<"a", "1">>, <<"a", "2">>>>,
   <<<<"flag", "">>>>, <<<<"state", "old">>>>, <<<<"code", "old">>>>}

\* Authorize requests without prompt
SuccessRequests ==
  [session : SID \cup {0}, prompt : {NONE}, expiration : {NONE},
   state : States, code_challenge : {NONE}, code_challenge_method : {"none"},
   redirect_uri_query : RedirectUriQueries]

\* The success path of the authorize flow
NextSuccess ==
  \/ StartAuthenticationCodeFlow(SuccessRequests, {DefaultReads}, {NONE})
  \/ \E f \in BagToSet(requests) : create_cookie_client_session(f)
  \/ \E f \in BagToSet(requests), cookie_scope \in BOOLEAN : create_session(f, cookie_scope)
  \/ \E f \in BagToSet(requests) : reply_with_successful_response(f)

SpecSuccess == InitSession /\ [][NextSuccess]_vars

(***************************************************************************)
(* Properties of the session hierarchy (checked under SpecSession)         *)
(***************************************************************************)
\* Ids of the sessions above x in store S, along ParentSessionId
RECURSIVE Ancestors(_, _)
Ancestors(S, x) ==
  IF x \notin DOMAIN S \/ S[x].ParentSessionId = 0 THEN {}
  ELSE {S[x].ParentSessionId} \cup Ancestors(S, S[x].ParentSessionId)

\* C7: when the delete of a logout request completes, the session the request
\* logged out is not stored any more and no stored session has it among its
\* ancestors along ParentSessionId.
C7_LogoutDeletesSubtree ==
  [][\A f \in BagToSet(requests) :
       (f.op = "logout" /\ f.pc = "delete" /\ StepOf(f))
       => /\ f.session \notin DOMAIN sessions'
          /\ \A x \in DOMAIN sessions' : f.session \notin Ancestors(sessions', x)
    ]_vars

\* C7 witness: a logout has completed, and the root session and the client
\* session created from it are both gone
C7_Witness ==
  /\ reply = Reply("logout", "OK_200")
  /\ requests = EmptyBag
  /\ codeSeq >= 1
  /\ DOMAIN sessions = {}

\* C8 as claimed: every stored session that is not a root session has a
\* ParentSessionId that names a stored session of type root.
C8_ParentIsLiveRoot ==
  \A s \in DOMAIN sessions :
    sessions[s].Type # "root"
    => /\ sessions[s].ParentSessionId \in DOMAIN sessions
       /\ sessions[sessions[s].ParentSessionId].Type = "root"

\* C9: a client session inserted by the authorize flow has its root session
\* as parent and expires at the earlier of the requested expiration (counted
\* from now) and the root session's expiry, and at the root session's expiry
\* when the request asked for no expiration; no stored client session
\* expires later than its stored parent.
C9_ChildExpiryCapped ==
  [][/\ \A f \in BagToSet(requests) :
          (f.op = "authorize" /\ f.pc = "insert" /\ StepOf(f))
          => /\ sidSeq' = sidSeq + 1
             /\ sidSeq' \in DOMAIN sessions'
             /\ sessions'[sidSeq'].ParentSessionId = f.parent_session_id
             /\ f.parent_session_id \in DOMAIN sessions
                  => sessions[f.parent_session_id].ExpiresAt = f.parent_expires_at
             /\ sessions'[sidSeq'].ExpiresAt =
                  IF f.requested_expiration = None THEN f.parent_expires_at
                  ELSE IF now + Some(f.requested_expiration) <= f.parent_expires_at
                    THEN now + Some(f.requested_expiration)
                    ELSE f.parent_expires_at
     /\ \A s \in DOMAIN sessions' :
          (sessions'[s].Type # "root" /\ sessions'[s].ParentSessionId \in DOMAIN sessions')
          => sessions'[s].ExpiresAt <= sessions'[sessions'[s].ParentSessionId].ExpiresAt
    ]_vars

\* C9 witness: a stored client session expires before its stored root
\* session (the requested expiration was the earlier one)
C9_Witness ==
  \E s \in DOMAIN sessions :
    /\ sessions[s].Type # "root"
    /\ sessions[s].ParentSessionId \in DOMAIN sessions
    /\ sessions[s].ExpiresAt < sessions[sessions[s].ParentSessionId].ExpiresAt

(***************************************************************************)
(* Properties of the authorization codes (checked under SpecCode)          *)
(***************************************************************************)
ExchangeFrames(B) == {f \in BagToSet(B) : f.op = "exchange"}

\* C10: an exchange that gets the session of a code removes the code in the
\* same step; a removed code is never stored again; an exchange of a code
\* that is not stored fails with KeyError and starts nothing; hence no two
\* exchanges, in flight together or one after the other, hold the same code.
C10_CodeExchangedAtMostOnce ==
  [][/\ \A g \in ExchangeFrames(requests') :
          /\ StepTo(g) => /\ g.code \in DOMAIN codes
                          /\ codes[g.code] = g.session
          /\ g.code \notin DOMAIN codes'
          /\ CopiesIn(g, requests') = 1
          /\ \A h \in ExchangeFrames(requests') : h.code = g.code => h = g
     /\ \A c \in 1 .. codeSeq : c \notin DOMAIN codes => c \notin DOMAIN codes'
     /\ \A c \in CODE :
          (c \notin DOMAIN codes /\ get_session_by_authorization_code(c))
          => /\ requests' = requests
             /\ reply' = Reply("exchange", "ERROR_KeyError")
    ]_vars

\* C10 witness: while the exchange that removed the only code minted is
\* still in flight, another exchange has failed
C10_Witness ==
  /\ codeSeq = 1
  /\ DOMAIN codes = {}
  /\ \E f \in ExchangeFrames(requests) : f.code = 1
  /\ reply = Reply("exchange", "ERROR_KeyError")

(***************************************************************************)
(* Properties of impersonation (checked under SpecImpersonate)             *)
(***************************************************************************)
Dangerous == {"authz:superuser", "authz:impersonate"}

\* A stored client session of an impersonated root session
ImpersonatedClientSession(s) ==
  /\ sessions[s].ParentSessionId # 0
  /\ \/ sessions[s].ImpersonatorSessionId # 0
     \/ /\ sessions[s].ParentSessionId \in DOMAIN sessions
        /\ sessions[sessions[s].ParentSessionId].ImpersonatorSessionId # 0

\* C11: a client session built from a root session whose
\* ImpersonatorSessionId is set holds neither authz:superuser nor
\* authz:impersonate in any scope of its authorization, whatever resources
\* the roles of its credentials assign; the same holds for what the session
\* builders hand to create_session.
C11_NoDangerousResourceInImpersonatedClient ==
  /\ \A s \in DOMAIN sessions :
       ImpersonatedClientSession(s)
       => \A scope \in Scopes : sessions[s].Authz[scope] \cap Dangerous = {}
  /\ \A f \in BagToSet(requests) :
       ( /\ f.op = "authorize" /\ f.pc = "insert"
         /\ f.session_builders.ImpersonatorSessionId # 0 )
       => \A scope \in Scopes : f.session_builders.Authz[scope] \cap Dangerous = {}

\* C11 witness: a stored client session of an impersonated root session
\* whose credentials are assigned the superuser resource
C11_Witness ==
  \E s \in DOMAIN sessions :
    /\ ImpersonatedClientSession(s)
    /\ sessions[s].CredentialsId = "robot"
    /\ "authz:superuser" \in AssignedResources["robot"]["*"]

\* The resources the claim lists as global-only, as far as the roles of the
\* model assign them
GlobalOnly == {"authz:superuser", "authz:impersonate", "authz:tenant:access"}

C12_NoChainedImpersonation ==
  [][/\ \A session \in DOMAIN sessions, target_cid \in ImpersonationTargets :
          ( /\ sessions[session].ImpersonatorSessionId # 0
            /\ \/ impersonate(session, target_cid)
               \/ impersonate_and_redirect(session, target_cid) )
          => /\ requests' = requests
             /\ reply'.result = "DENIED"
     /\ \A g \in BagToSet(requests') :
          (g.op \in ImpersonateOps /\ StepTo(g))
          => sessions[g.impersonator_root_session].ImpersonatorSessionId = 0
     /\ \A s \in DOMAIN sessions' :
          sessions'[s].ImpersonatorSessionId \in DOMAIN sessions'
          => sessions'[sessions'[s].ImpersonatorSessionId].ImpersonatorSessionId = 0
    ]_vars

\* C12 witness: an impersonation has succeeded, and after it an impersonate
\* request of an impersonated session was refused
C12_Witness ==
  /\ reply.op \in ImpersonateOps /\ reply.result = "DENIED"
  /\ \E s \in DOMAIN sessions :
       /\ sessions[s].ImpersonatorSessionId \in DOMAIN sessions
       /\ ImpersonateGate(sessions[s].ImpersonatorSessionId)

\* C13 as claimed: when create_impersonated_session raises, the impersonate
\* endpoints reply 403 and store no session.
C13_FailedImpersonationReplies403 ==
  [][\A f \in BagToSet(requests), access_revoked, client_found \in BOOLEAN :
       ( /\ CreateImpersonatedSessionRaises(f.target_cid, access_revoked)
         /\ _impersonate(f, access_revoked, client_found) )
       => /\ reply' = Reply(f.op, "FORBIDDEN_403")
          /\ sessions' = sessions
    ]_vars

\* C14: the logout of an impersonated session leaves the session deleted
\* and replies OK; the reply sets the cookie of the impersonator session
\* when (and only when) that session is found in storage and has a cookie,
\* and otherwise only clears the cookie.
C14_LogoutRestoresImpersonator ==
  [][\A f \in BagToSet(requests) :
       /\ ( f.op = "logout" /\ f.pc = "delete" /\ StepOf(f)
            /\ f.impersonator_session_id # 0 )
          => /\ f.session \notin DOMAIN sessions'
             /\ StepTo([f EXCEPT !.pc = "restore"])
       /\ (f.op = "logout" /\ f.pc = "restore" /\ StepOf(f))
          => /\ f.impersonator_session_id # 0
             /\ f.session \notin DOMAIN sessions'
             /\ reply'.op = "logout" /\ reply'.result = "OK_200"
             /\ ( /\ SessionFound(f.impersonator_session_id)
                  /\ sessions[f.impersonator_session_id].Cookie )
                <=> ( /\ "set_cookie" \in DOMAIN reply'
                      /\ reply'.set_cookie = f.impersonator_session_id )
    ]_vars

\* C14 witness: the logout of an impersonated session has set the cookie of
\* its impersonator session, which is still stored
C14_Witness ==
  /\ reply.op = "logout"
  /\ "set_cookie" \in DOMAIN reply
  /\ reply.set_cookie \in DOMAIN sessions
  /\ \A s \in DOMAIN sessions : sessions[s].ImpersonatorSessionId = 0

(***************************************************************************)
(* Properties of the authorize endpoint                                    *)
(***************************************************************************)
\* The query has the parameter k with value v
Carries(query, k, v) == \E i \in DOMAIN query : query[i] = <<k, v>>

\* C15: an authorize request with prompt=none and no usable root session is
\* answered at once with the redirect to redirect_uri that has
\* error=login_required and the state of the request; it stores no login
\* session and no session, mints no code, and appends exactly one audit
\* record, an AUTHORIZE_ERROR.
C15_PromptNoneLoginRequired ==
  [][\A request \in AuthorizeRequests :
       ( /\ request.prompt = "none"
         /\ RootSessionOfRequest(request.session) = 0
         /\ authentication_code_flow(request, DefaultReads) )
       => /\ reply'.result = "AUTH_ERROR"
          /\ reply'.location = RedirectUri
          /\ reply'.error = "login_required"
          /\ reply'.state = request.state
          /\ UNCHANGED <<loginSessions, sessions, sidSeq, codes, codeSeq, requests>>
          /\ audit' = <<AuditAuthorizeError("login_required")>>
    ]_vars

\* C16: every reply of authorize with an OAuth2 error follows exactly one
\* audit record of its request, an AUTHORIZE_ERROR, and every success reply
\* follows exactly one, an AUTHORIZE_SUCCESS.
C16_EveryExitAudited ==
  /\ (reply.op = "authorize" /\ reply.result = "AUTH_ERROR")
       => (Len(audit) = 1 /\ audit[1].code = "AUTHORIZE_ERROR")
  /\ (reply.op = "authorize" /\ reply.result = "CODE_302")
       => audit = <<AuditAuthorizeSuccess>>

\* C17: an authorize request with prompt=login and a usable root session
\* goes on to delete that root session and to nothing else; the step that
\* deletes it leaves the root session out of storage, mints no code, stores
\* no session and replies with the redirect to the login page.
C17_PromptLoginDeletesRootSession ==
  [][/\ \A request \in CodeFlowRequests :
          ( /\ request.prompt = "login"
            /\ request.session \in DOMAIN sessions
            /\ RootSessionOfRequest(request.session) # 0
            /\ authentication_code_flow(request, DefaultReads) )
          => /\ \E g \in BagToSet(requests') :
                  /\ StepTo(g)
                  /\ g.pc = "delete_root"
                  /\ g.root_session = request.session
             /\ UNCHANGED <<codes, codeSeq, sidSeq>>
     /\ \A f \in BagToSet(requests) :
          authentication_code_flow_prompt_login(f)
          => /\ f.root_session \notin DOMAIN sessions'
             /\ UNCHANGED <<codes, codeSeq, sidSeq>>
             /\ reply'.result = "REDIRECT_LOGIN"
             /\ requests' = Remove(requests, f)
    ]_vars

\* C17 witness: the only root session was deleted by a request with
\* prompt=login, which was redirected to the login page; no code was minted
C17_Witness ==
  /\ reply.result = "REDIRECT_LOGIN"
  /\ requests = EmptyBag
  /\ sidSeq = 1
  /\ DOMAIN sessions = {}
  /\ codeSeq = 0

\* The loopback query carries the authorize parameters of the request
LoopbackCarries(query, state, code_challenge, code_challenge_method) ==
  /\ Carries(query, "response_type", "code")
  /\ Carries(query, "scope", Scope)
  /\ Carries(query, "client_id", ClientId)
  /\ Carries(query, "redirect_uri", RedirectUri)
  /\ state # NONE => Carries(query, "state", state)
  /\ code_challenge # NONE
       => /\ Carries(query, "code_challenge", code_challenge)
          /\ Carries(query, "code_challenge_method", code_challenge_method)

\* C18: an authorize request without usable root session and with a prompt
\* other than none, or with prompt=select_account, is answered with the
\* redirect to the login page, whose loopback URI has response_type, scope,
\* client_id, redirect_uri and the state, code_challenge and
\* code_challenge_method of the request; it stores no session and mints no
\* code.  The same holds for the reply of a request with prompt=login once
\* it has deleted its root session.
C18_LoginRedirectCarriesRequest ==
  [][/\ \A request \in CodeFlowRequests :
          ( /\ request.session \in DOMAIN sessions \cup {0}
            /\ \/ RootSessionOfRequest(request.session) = 0
               \/ request.prompt = "select_account"
            /\ authentication_code_flow(request, DefaultReads) )
          => /\ reply'.result = "REDIRECT_LOGIN"
             /\ LoopbackCarries(reply'.callback_query, request.state,
                   request.code_challenge, request.code_challenge_method)
             /\ UNCHANGED <<sessions, sidSeq, codes, codeSeq, requests>>
     /\ \A f \in BagToSet(requests) :
          authentication_code_flow_prompt_login(f)
          => /\ reply'.result = "REDIRECT_LOGIN"
             /\ LoopbackCarries(reply'.callback_query, f.state,
                   f.code_challenge, f.code_challenge_method)
             /\ UNCHANGED <<sidSeq, codes, codeSeq>>
    ]_vars

\* C18 witness: a request with state and PKCE was redirected to the login
\* page while a root session is stored (prompt=select_account, or a request
\* without session), and the loopback query has its state and its challenge
C18_Witness ==
  /\ reply.result = "REDIRECT_LOGIN"
  /\ Carries(reply.callback_query, "state", "xyz")
  /\ Carries(reply.callback_query, "code_challenge", "abc")
  /\ Carries(reply.callback_query, "code_challenge_method", "S256")
  /\ DOMAIN sessions # {}
  /\ codeSeq = 0

\* The request gets to the factors: a usable root session, no prompt or
\* prompt=none, access to the tenants
ReachesFactors(request, reads) ==
  /\ request.prompt \in {NONE, "none"}
  /\ RootSessionOfRequest(request.session) # 0
  /\ reads.access_granted

\* The request is redirected to the factor setup: nothing is stored, nothing
\* goes on
RedirectedToFactorSetup ==
  /\ reply'.result = "REDIRECT_FACTOR_SETUP"
  /\ UNCHANGED <<requests, sessions, sidSeq, codes, codeSeq>>

\* The request goes on to create its client session
ProceedsToSession ==
  \E g \in BagToSet(requests') :
    g.op = "authorize" /\ g.pc = "create" /\ StepTo(g)

\* C19 as claimed: the redirect to the factor setup happens exactly when a
\* factor that the application or the credentials enforce is not among the
\* factors of the login descriptor, and otherwise the request goes on.
C19_SetupIffMandatedFactorMissing ==
  [][\A request \in FactorSetupRequests, reads \in AuthorizeReads :
       (ReachesFactors(request, reads) /\ authentication_code_flow(request, reads))
       => IF (EnforceFactors \cup reads.cred_enforce_factors) \ reads.login_factors # {}
            THEN RedirectedToFactorSetup
            ELSE ProceedsToSession
    ]_vars

\* C19 amended: the redirect to the factor setup happens exactly when a
\* factor the application enforces is not among the factors of the login
\* descriptor, or the credentials enforce any factor at all (whether or not
\* the login used it); otherwise the request goes on to create its session.
C19_SetupIffAppFactorMissingOrCredentialEnforces ==
  [][\A request \in FactorSetupRequests, reads \in AuthorizeReads :
       (ReachesFactors(request, reads) /\ authentication_code_flow(request, reads))
       => IF \/ EnforceFactors \ reads.login_factors # {}
             \/ reads.cred_enforce_factors # {}
            THEN RedirectedToFactorSetup
            ELSE ProceedsToSession
    ]_vars

\* C19 witness: a request was redirected to the factor setup, and another
\* one has got its code
C19_Witness ==
  /\ reply.result = "REDIRECT_FACTOR_SETUP"
  /\ codeSeq >= 1
  /\ requests = EmptyBag

\* The requests with or without PKCE that get to the factors
FactorRedirectRequests ==
  {request \in AuthorizeRequests : request.prompt \in {NONE, "none"}}

NextFactorRedirect ==
  \/ StartAuthenticationCodeFlow(FactorRedirectRequests, AuthorizeReads, {NONE})
  \/ \E f \in BagToSet(requests) : create_cookie_client_session(f)
  \/ \E f \in BagToSet(requests), cookie_scope \in BOOLEAN : create_session(f, cookie_scope)
  \/ \E f \in BagToSet(requests) : reply_with_successful_response(f)

SpecFactorRedirect == InitSession /\ [][NextFactorRedirect]_vars

\* C35: the authorize URI in the redirect to the factor setup carries
\* response_type, scope, client_id, redirect_uri, and the state,
\* code_challenge and code_challenge_method of the request.
C35_FactorSetupCarriesRequest ==
  [][\A request \in FactorRedirectRequests, reads \in AuthorizeReads :
       ( /\ authentication_code_flow(request, reads)
         /\ reply'.result = "REDIRECT_FACTOR_SETUP" )
       => LoopbackCarries(reply'.authorize_query, request.state,
                          request.code_challenge, request.code_challenge_method)
    ]_vars

\* The pairs of the query of redirect_uri that the reply must keep: all but
\* the state when the request has one
RECURSIVE KeptPairs(_, _)
KeptPairs(query, state) ==
  IF query = <<>> THEN <<>>
  ELSE (IF Head(query)[1] = "state" /\ state # NONE THEN <<>> ELSE <<Head(query)>>)
         \o KeptPairs(Tail(query), state)

\* C20: the query of the success redirect has every parameter of the query
\* of redirect_uri with its value (but a state that the state of the request
\* replaces), the code that was minted, and the state of the request when it
\* has one.
C20_SuccessKeepsQuery ==
  [][\A f \in BagToSet(requests) :
       reply_with_successful_response(f)
       => /\ reply'.result = "CODE_302"
          /\ reply'.location = RedirectUri
          /\ \A i \in DOMAIN KeptPairs(f.redirect_uri_query, f.state) :
               Carries(reply'.query, KeptPairs(f.redirect_uri_query, f.state)[i][1],
                       KeptPairs(f.redirect_uri_query, f.state)[i][2])
          /\ Carries(reply'.query, "code", AuthorizationCode(codeSeq'))
          /\ f.state # NONE => Carries(reply'.query, "state", f.state)
    ]_vars

(***************************************************************************)
(* Exceptions (exceptions.py)                                              *)
(***************************************************************************)
\* The exception classes that the module seacatauth.exceptions defines
DefinedExceptions ==
  {"TenantNotSpecified", "AuthenticationRequired", "AccessDenied",
   "TenantAccessDenied", "NoTenants", "TenantNotFound"}

\* exceptions.<name>, in a raise statement or an except clause: the class,
\* or AttributeError when the module has no attribute of that name
ExceptionNamed(name) ==
  IF name \in DefinedExceptions THEN name ELSE "AttributeError"

(***************************************************************************)
(* TenantService.get_tenants_by_scope and authorize_tenants_by_scope       *)
(***************************************************************************)
\* The tenants that can be stored
TenantIds == {"acme", "beta"}

\* resource.startswith("tenant:") and resource[len("tenant:"):], for the
\* scope entries of the model
TenantOfResource ==
  [resource \in {"tenant:*", "tenant:acme", "tenant:beta", "tenant:ghost"} |->
     CASE resource = "tenant:*" -> "*"
       [] resource = "tenant:acme" -> "acme"
       [] resource = "tenant:beta" -> "beta"
       [] resource = "tenant:ghost" -> "ghost"]

\* tenant/service.py 340-357: the loop over the scope, from entry i on, with
\* the tenants gathered so far.  stored: the tenant collection that
\* get_tenant (80-84) reads.
RECURSIVE TenantsOfScope(_, _, _, _, _, _)
TenantsOfScope(scope, i, user_tenants, has_access_to_all_tenants, stored, gathered) ==
  IF i > Len(scope) THEN [raised |-> NONE, tenants |-> gathered]
  ELSE IF scope[i] \notin DOMAIN TenantOfResource
    THEN TenantsOfScope(scope, i + 1, user_tenants, has_access_to_all_tenants,
                        stored, gathered)
  ELSE LET tenant == TenantOfResource[scope[i]] IN
    IF tenant = "*"
      THEN TenantsOfScope(scope, i + 1, user_tenants, has_access_to_all_tenants,
                          stored, gathered \cup Range(user_tenants))
    ELSE IF tenant \in Range(user_tenants)
      THEN TenantsOfScope(scope, i + 1, user_tenants, has_access_to_all_tenants,
                          stored, gathered \cup {tenant})
    ELSE IF has_access_to_all_tenants
      THEN IF tenant \in stored
             THEN TenantsOfScope(scope, i + 1, user_tenants,
                                 has_access_to_all_tenants, stored,
                                 gathered \cup {tenant})
             ELSE [raised |-> ExceptionNamed("TenantNotFoundError"), tenants |-> {}]
    ELSE IF user_tenants = <<>>
      THEN [raised |-> ExceptionNamed("NoTenantsError"), tenants |-> {}]
    ELSE [raised |-> ExceptionNamed("TenantAccessDeniedError"), tenants |-> {}]

\* The first element of the list
Head1(list) == {list[1]}

\* tenant/service.py 330-372: get_tenants_by_scope(scope, credential_id,
\* has_access_to_all_tenants).  user_tenants: get_tenants(credential_id), in
\* the order of assignment; last_authorized: what
\* get_last_authorized_tenants(credential_id) returns (<<>>: None or empty).
get_tenants_by_scope(scope, user_tenants, has_access_to_all_tenants, stored, last_authorized) ==
  LET by_name == TenantsOfScope(scope, 1, user_tenants,
                                has_access_to_all_tenants, stored, {})
      last_tenants == SelectSeq(last_authorized,
                                LAMBDA tenant : tenant \in Range(user_tenants))
  IN IF by_name.raised # NONE THEN by_name
     ELSE IF by_name.tenants = {} /\ "tenant" \in Range(scope)
       THEN IF last_tenants # <<>>
              THEN [raised |-> NONE, tenants |-> Head1(last_tenants)]
            ELSE IF Len(user_tenants) > 0
              THEN [raised |-> NONE, tenants |-> Head1(user_tenants)]
            ELSE [raised |-> ExceptionNamed("NoTenantsError"), tenants |-> {}]
     ELSE by_name

\* authorize.py 721-756: authorize_tenants_by_scope(scope, session,
\* client_id).  When get_tenants_by_scope raises, the except clauses are
\* looked up in order: the first names exceptions.TenantNotFoundError.
authorize_tenants_by_scope(scope, session, stored, last_authorized) ==
  LET has_access_to_all_tenants ==
        \/ HasResourceAccess(session.Authz, "authz:superuser")
        \/ HasResourceAccess(session.Authz, "authz:tenant:access")
      got == get_tenants_by_scope(scope, assignments[session.CredentialsId],
                                  has_access_to_all_tenants, stored,
                                  last_authorized)
  IN IF got.raised = NONE
       THEN [raised |-> NONE, tenants |-> got.tenants, audit |-> <<>>]
     ELSE IF ExceptionNamed("TenantNotFoundError") = "AttributeError"
       THEN [raised |-> "AttributeError", tenants |-> {}, audit |-> <<>>]
     ELSE IF got.raised = ExceptionNamed("TenantNotFoundError")
       THEN [raised |-> ExceptionNamed("AccessDeniedError"), tenants |-> {},
             audit |-> <<AuditAuthorizeError("access_denied:tenant_not_found")>>]
     ELSE IF got.raised = ExceptionNamed("TenantAccessDeniedError")
       THEN [raised |-> ExceptionNamed("AccessDeniedError"), tenants |-> {},
             audit |-> <<AuditAuthorizeError("access_denied:unauthorized_tenant")>>]
     ELSE IF got.raised = ExceptionNamed("NoTenantsError")
       THEN [raised |-> ExceptionNamed("AccessDeniedError"), tenants |-> {},
             audit |-> <<AuditAuthorizeError("access_denied:user_has_no_tenant")>>]
     ELSE [raised |-> got.raised, tenants |-> {}, audit |-> <<>>]

\* What authentication_code_flow reads in lines 419-433 for a scope, with
\* the root session of the request: the outcome of authorize_tenants_by_scope
\* over the tenant collections as they are, and the factors of a login that
\* used the factor the application enforces
TenantReads(scope, root_session, last_authorized) ==
  LET authorized == authorize_tenants_by_scope(scope, sessions[root_session],
                                               tenants, last_authorized)
  IN [access_granted |-> authorized.raised = NONE,
      tenants |-> authorized.tenants,
      login_factors |-> {"totp"}, cred_enforce_factors |-> {}]

\* The scopes of the authorize requests: openid alone, with the bare entry
\* "tenant", with every tenant, with a tenant by name, with a name and the
\* bare entry
TenantScopes ==
  {<<"openid">>, <<"openid", "tenant">>, <<"openid", "tenant:*">>,
   <<"openid", "tenant:acme">>, <<"openid", "tenant:beta">>,
   <<"openid", "tenant:ghost">>, <<"openid", "tenant:ghost", "tenant">>}

\* What LastActivityService.get_last_authorized_tenants returns
LastAuthorizedTenants == {<<>>, <<"acme">>, <<"beta">>, <<"beta", "acme">>}

\* An authorize request without prompt that presents a usable root session
\* and asks for the scope
authorize_tenants(request, scope, last_authorized) ==
  /\ request.prompt = NONE
  /\ RootSessionOfRequest(request.session) # 0
  /\ authentication_code_flow(request,
       TenantReads(scope, request.session, last_authorized))

(***************************************************************************)
(* TenantService.delete_tenant                                             *)
(***************************************************************************)
\* tenant/handler.py 133-139 and tenant/service.py 130-131: DELETE of a
\* tenant by a superuser enters delete_tenant
delete_tenant(tenant_id) ==
  /\ MayStart
  /\ requests' = Add(requests, [op |-> "delete_tenant", pc |-> "roles",
                                tenant_id |-> tenant_id])
  /\ NoReply
  /\ UNCHANGED <<sessions, sidSeq, codes, codeSeq, now>>
  /\ UNCHANGED <<loginVars, adminVars>>

\* tenant/service.py 133-149: the roles of the tenant are listed and
\* deleted; a KeyError of role_svc.delete is passed over, any other
\* exception (failed) leaves delete_tenant
delete_tenant_roles(f, failed) ==
  /\ BagIn(f, requests) /\ f.op = "delete_tenant" /\ f.pc = "roles"
  /\ IF failed
       THEN /\ requests' = Remove(requests, f)
            /\ Respond([op |-> "delete_tenant", result |-> "ERROR",
                        tenant_id |-> f.tenant_id], <<>>)
       ELSE /\ requests' = Replace(requests, f, [f EXCEPT !.pc = "assignments"])
            /\ NoReply
  /\ UNCHANGED <<sessions, sidSeq, codes, codeSeq, now>>
  /\ UNCHANGED <<loginVars, adminVars>>

\* tenant/service.py 151-152: the tenant is unassigned from all credentials
delete_tenant_assignments(f, failed) ==
  /\ BagIn(f, requests) /\ f.op = "delete_tenant" /\ f.pc = "assignments"
  /\ IF failed
       THEN /\ requests' = Remove(requests, f)
            /\ Respond([op |-> "delete_tenant", result |-> "ERROR",
                        tenant_id |-> f.tenant_id], <<>>)
            /\ UNCHANGED assignments
       ELSE /\ requests' = Replace(requests, f, [f EXCEPT !.pc = "tenant"])
            /\ assignments' =
                 [cid \in DOMAIN assignments |->
                    SelectSeq(assignments[cid],
                              LAMBDA tenant : tenant # f.tenant_id)]
            /\ NoReply
  /\ UNCHANGED <<sessions, sidSeq, codes, codeSeq, now, tenants>>
  /\ UNCHANGED <<loginVars, rbacVars, otpVars>>

\* tenant/service.py 154-155: the tenant is deleted from the provider
\* (KeyError when it is not stored)
delete_tenant_from_provider(f) ==
  /\ BagIn(f, requests) /\ f.op = "delete_tenant" /\ f.pc = "tenant"
  /\ IF f.tenant_id \in tenants
       THEN /\ tenants' = tenants \ {f.tenant_id}
            /\ requests' = Replace(requests, f, [f EXCEPT !.pc = "sessions"])
            /\ NoReply
       ELSE /\ requests' = Remove(requests, f)
            /\ Respond([op |-> "delete_tenant", result |-> "ERROR",
                        tenant_id |-> f.tenant_id], <<>>)
            /\ UNCHANGED tenants
  /\ UNCHANGED <<sessions, sidSeq, codes, codeSeq, now, assignments>>
  /\ UNCHANGED <<loginVars, rbacVars, otpVars>>

\* delete_sessions_by_tenant_in_scope(tenant_id): every session whose
\* authorization has the tenant, and no other session
DeleteSessionsByTenantInScope(tenant_id) ==
  [sid \in {x \in DOMAIN sessions : tenant_id \notin DOMAIN sessions[x].Authz}
     |-> sessions[sid]]

\* tenant/service.py 157-160: the sessions that have the tenant in scope are
\* deleted, and delete_tenant returns
delete_tenant_sessions(f) ==
  /\ BagIn(f, requests) /\ f.op = "delete_tenant" /\ f.pc = "sessions"
  /\ sessions' = DeleteSessionsByTenantInScope(f.tenant_id)
  /\ requests' = Remove(requests, f)
  /\ Respond([op |-> "delete_tenant", result |-> "OK",
              tenant_id |-> f.tenant_id], <<>>)
  /\ UNCHANGED <<sidSeq, codes, codeSeq, now>>
  /\ UNCHANGED <<loginVars, adminVars>>

\* Lists of tenants in the order of assignment
AssignmentLists ==
  {<<>>, <<"acme">>, <<"beta">>, <<"acme", "beta">>, <<"beta", "acme">>}

\* Both tenants are stored; alice is assigned to some of them, the other
\* credentials to none (zed has access to all tenants); storage holds the
\* root session of a login of alice or of zed
InitTenant ==
  /\ tenants = TenantIds
  /\ \E assigned \in AssignmentLists :
       assignments = [cid \in CredentialIds |->
                        IF cid = "alice" THEN assigned ELSE <<>>]
  /\ InitRbacVars /\ InitOtpVars
  /\ loginSessions = <<>>
  /\ lsidSeq = 0
  /\ authenticateCalls = [ls \in LSID |-> 0]
  /\ requests = EmptyBag
  /\ reply = Reply("none", "NONE")
  /\ now = 0
  /\ sidSeq = 1
  /\ \E cid \in {"alice", "zed"} :
       sessions = [sid \in {1} |-> NewRootSession(cid)]
  /\ codes = <<>>
  /\ codeSeq = 0
  /\ audit = <<>>

NextTenant ==
  \/ \E request \in PlainRequests, scope \in TenantScopes,
        last_authorized \in LastAuthorizedTenants :
       authorize_tenants(request, scope, last_authorized)
  \/ \E f \in BagToSet(requests) : create_cookie_client_session(f)
  \/ \E f \in BagToSet(requests), cookie_scope \in BOOLEAN : create_session(f, cookie_scope)
  \/ \E f \in BagToSet(requests) : reply_with_successful_response(f)
  \/ \E tenant_id \in TenantIds : delete_tenant(tenant_id)
  \/ \E f \in BagToSet(requests), failed \in BOOLEAN : delete_tenant_roles(f, failed)
  \/ \E f \in BagToSet(requests), failed \in BOOLEAN : delete_tenant_assignments(f, failed)
  \/ \E f \in BagToSet(requests) : delete_tenant_from_provider(f)
  \/ \E f \in BagToSet(requests) : delete_tenant_sessions(f)

SpecTenant == InitTenant /\ [][NextTenant]_vars

(***************************************************************************)
(* Properties of the tenant service (checked under SpecTenant)             *)
(***************************************************************************)
\* The tenants that the scope asks for by name
NamedTenants(scope) ==
  {TenantOfResource[resource] :
     resource \in Range(scope) \cap DOMAIN TenantOfResource} \ {"*"}

\* The reason for which the tenant scope cannot be authorized, NONE when it
\* can: a named tenant that is not stored, a named tenant that the
\* credentials have no access to, or credentials without any tenant
DenialReason(scope, user_tenants, has_access_to_all_tenants) ==
  LET unassigned == NamedTenants(scope) \ Range(user_tenants)
  IN IF unassigned # {}
       THEN IF has_access_to_all_tenants
              THEN IF unassigned \subseteq tenants THEN NONE
                   ELSE "access_denied:tenant_not_found"
            ELSE IF user_tenants = <<>> THEN "access_denied:user_has_no_tenant"
            ELSE "access_denied:unauthorized_tenant"
     ELSE IF /\ "tenant" \in Range(scope)
             /\ NamedTenants(scope) = {}
             /\ user_tenants = <<>>
       THEN "access_denied:user_has_no_tenant"
     ELSE NONE

\* The session has access to all tenants
HasAccessToAllTenants(session) ==
  \/ "authz:superuser" \in session.Authz["*"]
  \/ "authz:tenant:access" \in session.Authz["*"]

\* C21: an authorize request whose tenant scope cannot be authorized (the
\* tenant is not stored, the credentials have no access to it, or the
\* credentials have no tenant) creates no session and no code, is answered
\* with error=access_denied, and appends one AUTHORIZE_ERROR audit record that
\* names the reason.
C21_TenantDenialAudited ==
  [][\A request \in PlainRequests, scope \in TenantScopes,
        last_authorized \in LastAuthorizedTenants :
       authorize_tenants(request, scope, last_authorized)
       => LET session == sessions[request.session]
              reason == DenialReason(scope, assignments[session.CredentialsId],
                                     HasAccessToAllTenants(session))
          IN reason # NONE
             => /\ reply' = reply_with_authentication_error("access_denied",
                              RedirectUri, NONE, request.state)
                /\ audit' = <<AuditAuthorizeError(reason)>>
                /\ UNCHANGED <<sessions, sidSeq, codes, codeSeq, requests>>
    ]_vars

\* C38: without access to all tenants get_tenants_by_scope returns only
\* tenants assigned to the credentials, and a scope that names an unassigned
\* tenant makes it raise NoTenants when the credentials have no tenant and
\* TenantAccessDenied otherwise; with access to all tenants an unassigned
\* tenant is returned only when it is stored.
C38_OnlyAssignedTenantsOrDenial ==
  \A cid \in DOMAIN assignments, scope \in TenantScopes,
     last_authorized \in LastAuthorizedTenants :
    LET user_tenants == assignments[cid]
        unassigned == NamedTenants(scope) \ Range(user_tenants)
        denied == get_tenants_by_scope(scope, user_tenants, FALSE, tenants,
                                       last_authorized)
        granted == get_tenants_by_scope(scope, user_tenants, TRUE, tenants,
                                        last_authorized)
    IN /\ denied.raised = NONE => denied.tenants \subseteq Range(user_tenants)
       /\ unassigned # {}
            => denied.raised = IF user_tenants = <<>> THEN "NoTenants"
                               ELSE "TenantAccessDenied"
       /\ granted.raised = NONE
            => granted.tenants \subseteq Range(user_tenants) \cup tenants

(***************************************************************************)
(* Properties of the parameter check (checked under SpecAuthorize)         *)
(***************************************************************************)
\* C22: an authorize request that lacks one of scope, client_id,
\* response_type and redirect_uri is answered with the error invalid_request
\* and touches no session: with a redirect to redirect_uri that carries the
\* error when redirect_uri is given, with an error page and no redirect
\* otherwise.
C22_MissingParameterReply ==
  [][\A redirect_uri \in {NONE, RedirectUri}, state \in States :
       authorize("missing_parameter", redirect_uri, state)
       => /\ reply'.error = "invalid_request"
          /\ reply'.state = state
          /\ UNCHANGED <<loginSessions, sessions, sidSeq, codes, codeSeq>>
          /\ IF redirect_uri # NONE
               THEN reply'.result = "AUTH_ERROR" /\ reply'.location = redirect_uri
               ELSE reply'.result = "ERROR_PAGE"
    ]_vars

(***************************************************************************)
(* Properties of delete_tenant (checked under SpecTenant)                  *)
(***************************************************************************)
\* The session has the tenant in the scope of its authorization
InScope(session, tenant_id) == tenant_id \in DOMAIN session.Authz

\* C23: once delete_tenant(t) has returned, no stored session has t in the
\* scope of its authorization, whatever authorize requests are in flight;
\* and the step of delete_tenant that deletes the sessions leaves every
\* session without t in storage, unchanged.
C23_NoSessionOfDeletedTenant ==
  [][/\ (reply'.op = "delete_tenant" /\ reply'.result = "OK")
          => \A sid \in DOMAIN sessions' :
               ~InScope(sessions'[sid], reply'.tenant_id)
     /\ \A f \in BagToSet(requests) :
          delete_tenant_sessions(f)
          => \A sid \in DOMAIN sessions :
               ~InScope(sessions[sid], f.tenant_id)
                 => sid \in DOMAIN sessions' /\ sessions'[sid] = sessions[sid]
    ]_vars

\* C24: for a scope with the bare entry "tenant" and no tenant by name,
\* get_tenants_by_scope returns the most recently authorized tenant of the
\* credentials when one is recorded (also for credentials without any
\* tenant assignment), else the first assigned tenant, else it fails with
\* NoTenants.
C24_BareTenantFallback ==
  [][\A request \in PlainRequests, last_authorized \in LastAuthorizedTenants :
       authorize_tenants(request, <<"openid", "tenant">>, last_authorized)
       => LET session == sessions[request.session]
              user_tenants == assignments[session.CredentialsId]
              got == get_tenants_by_scope(<<"openid", "tenant">>, user_tenants,
                       HasAccessToAllTenants(session), tenants, last_authorized)
          IN IF last_authorized # <<>>
               THEN got.raised = NONE /\ got.tenants = {last_authorized[1]}
             ELSE IF user_tenants # <<>>
               THEN got.raised = NONE /\ got.tenants = {user_tenants[1]}
             ELSE got.raised = "NoTenants"
    ]_vars

(***************************************************************************)
(* ResourceService (authz/resource/service.py)                             *)
(***************************************************************************)
\* Bound on the number of resource documents
MaxResources == 3

\* The requests in flight, the session and code collections and the clock,
\* which the services of the administration leave alone
flowVars == <<requests, sessions, sidSeq, codes, codeSeq, now>>

\* n times the character c
Run(c, n) == [c |-> c, n |-> n]

\* The texts of the resource ids of the model, as runs of characters:
\* "a" stands for a lowercase letter, "0" for a digit, "A" for an uppercase
\* letter, "\n" for a line feed
ResourceIdText ==
  [ authz_superuser |-> <<Run("a", 5), Run(":", 1), Run("a", 9)>>,
    ext_sync        |-> <<Run("a", 3), Run(":", 1), Run("a", 4)>>,
    blog_read       |-> <<Run("a", 4), Run(":", 1), Run("a", 4)>>,
    blog_edit2      |-> <<Run("a", 4), Run(":", 1), Run("a", 4), Run("0", 1)>>,
    x               |-> <<Run("a", 1)>>,
    Blog            |-> <<Run("A", 1), Run("a", 3)>>,
    blog_           |-> <<Run("a", 4), Run(":", 1)>>,
    a129            |-> <<Run("a", 129)>>,
    a130            |-> <<Run("a", 130)>>,
    a131            |-> <<Run("a", 131)>>,
    ab_lf           |-> <<Run("a", 2), Run("\n", 1)>> ]

ResourceIds == DOMAIN ResourceIdText

\* len(text)
RECURSIVE TextLen(_)
TextLen(text) ==
  IF text = <<>> THEN 0 ELSE Head(text).n + TextLen(Tail(text))

\* The characters of the text
TextChars(text) == {text[i].c : i \in DOMAIN text}

\* Lines 19 and 95: re.compile("^[a-z][a-z0-9:._-]{0,128}[a-z0-9]$").match:
\* a first character, at most 128 characters of the class, a last
\* character; "$" matches at the end of the text and before a line feed
\* that ends the text
ResourceIdRegexMatch(text) ==
  LET last == text[Len(text)]
      line == IF last = Run("\n", 1) THEN SubSeq(text, 1, Len(text) - 1)
              ELSE text
  IN /\ line # <<>>
     /\ line[1].c = "a"
     /\ line[Len(line)].c \in {"a", "0"}
     /\ TextChars(line) \subseteq {"a", "0", ":"}
     /\ TextLen(line) >= 2
     /\ TextLen(line) - 2 <= 128

\* Lines 22-82: the ids of _BuiltinResources, as far as the model has them
BuiltinResources == {"authz_superuser"}

\* Lines 292-297: normalize_resource sets read_only
ReadOnly(resource_id) ==
  \/ resource_id \in BuiltinResources
  \/ resources[resource_id].managed_by # NONE

\* RoleService.list(resource_filter=resource_id)
RolesWithResource(resource_id) ==
  {role_id \in DOMAIN roles : resource_id \in roles[role_id]}

\* RoleService.update(role_id, resources_to_remove, resources_to_add) for
\* each of the roles
UpdateRoles(role_ids, resources_to_remove, resources_to_add) ==
  [role_id \in DOMAIN roles |->
     IF role_id \in role_ids
       THEN (roles[role_id] \ resources_to_remove) \cup resources_to_add
       ELSE roles[role_id]]

\* The collection without the document
DeleteResource(resource_id) ==
  [id \in DOMAIN resources \ {resource_id} |-> resources[id]]

\* The reply of an operation of the resource service: its result is "OK" or
\* the exception that left it
ResourceReply(op, resource_id, result) == [op |-> op, result |-> result]

\* Lines 160-183: create.  The outcome and the collection after it.
Create(resource_id, description, collection) ==
  IF ~ResourceIdRegexMatch(ResourceIdText[resource_id])
    THEN [result |-> "ValidationError", resources |-> collection]
  ELSE IF resource_id \in DOMAIN collection
    THEN [result |-> "Conflict", resources |-> collection]
  ELSE [result |-> "OK",
        resources |->
          [id \in DOMAIN collection \cup {resource_id} |->
             IF id = resource_id
               THEN [description |-> description, managed_by |-> NONE,
                     deleted |-> FALSE]
               ELSE collection[id]]]

create(resource_id, description) ==
  LET created == Create(resource_id, description, resources)
  IN /\ Cardinality(DOMAIN resources) < MaxResources
     /\ resources' = created.resources
     /\ Respond(ResourceReply("create", resource_id, created.result), <<>>)
     /\ UNCHANGED <<roles, assignedRoles>>
     /\ UNCHANGED <<flowVars, loginVars, tenantVars, otpVars>>

\* Lines 152-157: get raises exceptions.ResourceNotFoundError for an id that
\* is not stored
resource_not_found(op, resource_id) ==
  /\ resource_id \notin DOMAIN resources
  /\ Respond(ResourceReply(op, resource_id,
                           ExceptionNamed("ResourceNotFoundError")), <<>>)
  /\ UNCHANGED <<flowVars, loginVars, adminVars>>

\* Lines 300-304: assert_resource_is_editable raises
\* exceptions.NotEditableError for a read-only resource
resource_not_editable(op, resource_id) ==
  /\ resource_id \in DOMAIN resources
  /\ ReadOnly(resource_id)
  /\ Respond(ResourceReply(op, resource_id,
                           ExceptionNamed("NotEditableError")), <<>>)
  /\ UNCHANGED <<flowVars, loginVars, adminVars>>

\* Lines 186-208: update; the description "" unsets the field
update(resource_id, description) ==
  \/ resource_not_found("update", resource_id)
  \/ resource_not_editable("update", resource_id)
  \/ /\ resource_id \in DOMAIN resources
     /\ ~ReadOnly(resource_id)
     /\ resources' = [resources EXCEPT ![resource_id].description =
                        IF description = "" THEN NONE ELSE description]
     /\ Respond(ResourceReply("update", resource_id, "OK"), <<>>)
     /\ UNCHANGED <<roles, assignedRoles>>
     /\ UNCHANGED <<flowVars, loginVars, tenantVars, otpVars>>

\* Lines 211-241: delete; the resource is removed from all roles, and its
\* document is deleted or marked as deleted
delete(resource_id, hard_delete) ==
  \/ resource_not_found("delete", resource_id)
  \/ resource_not_editable("delete", resource_id)
  \/ /\ resource_id \in DOMAIN resources
     /\ ~ReadOnly(resource_id)
     /\ roles' = UpdateRoles(RolesWithResource(resource_id), {resource_id}, {})
     /\ resources' = IF hard_delete THEN DeleteResource(resource_id)
                     ELSE [resources EXCEPT ![resource_id].deleted = TRUE]
     /\ Respond(ResourceReply("delete", resource_id, "OK"), <<>>)
     /\ UNCHANGED assignedRoles
     /\ UNCHANGED <<flowVars, loginVars, tenantVars, otpVars>>

\* Lines 244-258: undelete
undelete(resource_id) ==
  \/ resource_not_found("undelete", resource_id)
  \/ /\ resource_id \in DOMAIN resources
     /\ IF ~resources[resource_id].deleted
          THEN /\ Respond(ResourceReply("undelete", resource_id, "Conflict"), <<>>)
               /\ UNCHANGED resources
          ELSE /\ resources' = [resources EXCEPT ![resource_id].deleted = FALSE]
               /\ Respond(ResourceReply("undelete", resource_id, "OK"), <<>>)
     /\ UNCHANGED <<roles, assignedRoles>>
     /\ UNCHANGED <<flowVars, loginVars, tenantVars, otpVars>>

\* Lines 261-289: rename.  The document of the resource is deleted (274),
\* then the new resource is created (277), then the roles are updated
\* (278-283); an exception of create leaves rename.
rename(resource_id, new_resource_id) ==
  \/ resource_not_found("rename", resource_id)
  \/ resource_not_editable("rename", resource_id)
  \/ /\ resource_id \in DOMAIN resources
     /\ ~ReadOnly(resource_id)
     /\ LET role_ids == RolesWithResource(resource_id)
            created == Create(new_resource_id,
                              resources[resource_id].description,
                              DeleteResource(resource_id))
        IN /\ resources' = created.resources
           /\ roles' = IF created.result = "OK"
                         THEN UpdateRoles(role_ids, {resource_id},
                                          {new_resource_id})
                         ELSE roles
           /\ Respond(ResourceReply("rename", resource_id, created.result), <<>>)
     /\ UNCHANGED assignedRoles
     /\ UNCHANGED <<flowVars, loginVars, tenantVars, otpVars>>

\* Descriptions of resources
Descriptions == {NONE, "read the blog"}

\* The collection at startup: the built-in resource and a resource managed
\* from elsewhere, and a resource of an administrator, possibly marked as
\* deleted; two roles
InitResource ==
  /\ \E deleted \in BOOLEAN :
       resources =
         [id \in {"authz_superuser", "ext_sync", "blog_read"} |->
            [description |-> IF id = "blog_read" THEN "read the blog" ELSE NONE,
             managed_by |-> CASE id = "authz_superuser" -> "seacat-auth"
                              [] id = "ext_sync" -> "ext"
                              [] OTHER -> NONE,
             deleted |-> id = "blog_read" /\ deleted]]
  /\ roles = [role_id \in {"*/admin", "acme/editor"} |->
                IF role_id = "*/admin"
                  THEN {"authz_superuser", "ext_sync", "blog_read"}
                  ELSE {"blog_read"}]
  /\ assignedRoles = [cid \in CredentialIds |-> {}]
  /\ InitTenantVars /\ InitOtpVars
  /\ loginSessions = <<>>
  /\ lsidSeq = 0
  /\ authenticateCalls = [ls \in LSID |-> 0]
  /\ requests = EmptyBag
  /\ reply = Reply("none", "NONE")
  /\ now = 0
  /\ sidSeq = 0
  /\ sessions = <<>>
  /\ codes = <<>>
  /\ codeSeq = 0
  /\ audit = <<>>

NextResource ==
  \/ \E resource_id \in ResourceIds, description \in Descriptions :
       create(resource_id, description)
  \/ \E resource_id \in ResourceIds, description \in {"", "write the blog"} :
       update(resource_id, description)
  \/ \E resource_id \in ResourceIds, hard_delete \in BOOLEAN :
       delete(resource_id, hard_delete)
  \/ \E resource_id \in ResourceIds : undelete(resource_id)
  \/ \E resource_id, new_resource_id \in ResourceIds :
       rename(resource_id, new_resource_id)

SpecResource == InitResource /\ [][NextResource]_vars

(***************************************************************************)
(* Properties of the resource service (checked under SpecResource)         *)
(***************************************************************************)
\* C25: for a stored resource that is built-in or has managed_by set, each of
\* update, delete, undelete and rename fails with NotEditableError and leaves
\* the resource documents and the resources of the roles as they are.
C25_ManagedResourceProtected ==
  [][\A resource_id \in DOMAIN resources :
       ( /\ ReadOnly(resource_id)
         /\ \/ \E description \in {"", "write the blog"} :
                 update(resource_id, description)
            \/ \E hard_delete \in BOOLEAN : delete(resource_id, hard_delete)
            \/ undelete(resource_id)
            \/ \E new_resource_id \in ResourceIds :
                 rename(resource_id, new_resource_id) )
       => /\ reply'.result = "NotEditableError"
          /\ UNCHANGED <<resources, roles, assignedRoles>>
    ]_vars

\* C26: rename creates the new resource before it deletes the old one: when
\* the new resource cannot be created (its id is not valid, or is the id of
\* another stored resource), the old resource and the roles that have it
\* are as before.
C26_RenameKeepsOldOnFailure ==
  [][\A resource_id \in DOMAIN resources, new_resource_id \in ResourceIds :
       ( /\ ~ReadOnly(resource_id)
         /\ new_resource_id # resource_id
         /\ Create(new_resource_id, NONE, resources).result # "OK"
         /\ rename(resource_id, new_resource_id) )
       => /\ resource_id \in DOMAIN resources'
          /\ resources'[resource_id] = resources[resource_id]
          /\ roles' = roles
    ]_vars

\* The text is 2 to 128 characters long, starts with a lowercase letter,
\* ends with a lowercase letter or a digit and has only lowercase letters,
\* digits and the characters . : _ -
WellFormedResourceId(text) ==
  /\ TextLen(text) \in 2 .. 128
  /\ text[1].c = "a"
  /\ text[Len(text)].c \in {"a", "0"}
  /\ TextChars(text) \subseteq {"a", "0", ":"}

\* C29: create stores a resource only under a well-formed id of 2 to 128
\* characters; for any other id it fails with ValidationError and stores
\* nothing.
C29_ResourceIdValidated ==
  [][\A resource_id \in ResourceIds, description \in Descriptions :
       ( /\ ~WellFormedResourceId(ResourceIdText[resource_id])
         /\ create(resource_id, description) )
       => /\ reply'.result = "ValidationError"
          /\ UNCHANGED resources
    ]_vars

(***************************************************************************)
(* RolesHandler (authz/role/handler/roles.py)                              *)
(***************************************************************************)
\* The tenants a request names in its path: "*" is the global scope
RoleTenants == {"*", "acme", "beta"}

\* The role names a request names in its path
RoleNames == {"admin", "editor"}

\* "{}/{}".format(tenant, role_name), lines 103 and 131
RoleIdFormat(tenant, role_name) ==
  CASE tenant = "*"    /\ role_name = "admin"  -> "*/admin"
    [] tenant = "*"    /\ role_name = "editor" -> "*/editor"
    [] tenant = "acme" /\ role_name = "admin"  -> "acme/admin"
    [] tenant = "acme" /\ role_name = "editor" -> "acme/editor"
    [] tenant = "beta" /\ role_name = "admin"  -> "beta/admin"
    [] tenant = "beta" /\ role_name = "editor" -> "beta/editor"

\* role_id.split("/")[0]: the tenant of a role
TenantOfRole(role_id) ==
  CHOOSE tenant \in RoleTenants :
    \E role_name \in RoleNames : RoleIdFormat(tenant, role_name) = role_id

\* The roles of a set that belong to the given tenants
RolesOfTenants(role_ids, tenant_scope) ==
  {role_id \in role_ids : TenantOfRole(role_id) \in tenant_scope}

\* The sessions that send the requests: a superuser, an administrator of the
\* tenant acme only, and credentials that hold authz:tenant:admin globally
\* without being superuser
RequesterSessions ==
  { [CredentialsId |-> "robot",
     Authz |-> [s \in RoleTenants |-> IF s = "*" THEN {"authz:superuser"} ELSE {}]],
    [CredentialsId |-> "alice",
     Authz |-> [s \in RoleTenants |->
                  IF s = "acme" THEN {"authz:tenant:admin", "blog:read"} ELSE {}]],
    [CredentialsId |-> "zed",
     Authz |-> [s \in RoleTenants |-> {"authz:tenant:admin"}]] }

\* RBACService.is_superuser(authz)
is_superuser(authz) == "authz:superuser" \in authz["*"]

\* RBACService.has_resource_access(authz, tenant, [resource]), the test of
\* the decorator access_control(resource)
has_resource_access(authz, tenant, resource) ==
  \/ is_superuser(authz)
  \/ resource \in authz[tenant] \cup authz["*"]

\* The argument "resources" that access_control hands to the handler: the
\* resources of the requester in the tenant of the request
RequesterResources(authz, tenant) == authz[tenant] \cup authz["*"]

\* Global roles are un/assigned whoever asks
IncludeGlobal_always(requester_resources, tenant) == "yes"

\* Lines 86-95 of set_roles: whether global roles will be un/assigned
\* ("forbidden": HTTPForbidden is raised); requester_resources is the
\* handler's argument "resources"
IncludeGlobal(requester_resources, tenant) ==
  IF "authz:superuser" \in requester_resources THEN "yes"
  ELSE IF tenant = "*" THEN "forbidden"
  ELSE "no"

\* The reply of a request of the roles handler
RolesReply(op, status) == [op |-> op, status |-> status]

\* RoleService.set_roles(credentials_id, roles, tenant, include_global): the
\* roles in the tenant of the request, and the global ones when
\* include_global, are replaced by the requested roles; a requested role
\* outside of these, or one that is not stored, fails the request
SetRoles(assigned, requested_roles, tenant, include_global) ==
  LET tenant_scope == {tenant} \cup (IF include_global THEN {"*"} ELSE {})
  IN IF \/ requested_roles \ DOMAIN roles # {}
        \/ RolesOfTenants(requested_roles, tenant_scope) # requested_roles
       THEN [ok |-> FALSE, roles |-> assigned]
       ELSE [ok |-> TRUE,
             roles |-> (assigned \ RolesOfTenants(assigned, tenant_scope))
                         \cup requested_roles]

\* Lines 68-98: PUT /roles/{tenant}/{credentials_id}
set_roles(session, tenant, credentials_id, requested_roles) ==
  LET requester_resources == RequesterResources(session.Authz, tenant)
      include_global == IncludeGlobal(requester_resources, tenant)
      set == SetRoles(assignedRoles[credentials_id], requested_roles, tenant,
                      include_global = "yes")
  IN /\ IF \/ ~has_resource_access(session.Authz, tenant, "authz:tenant:admin")
           \/ include_global = "forbidden"
          THEN /\ Respond(RolesReply("set_roles", "403"), <<>>)
               /\ UNCHANGED assignedRoles
          ELSE /\ assignedRoles' = [assignedRoles EXCEPT ![credentials_id] = set.roles]
               /\ Respond(RolesReply("set_roles", IF set.ok THEN "OK" ELSE "error"), <<>>)
     /\ UNCHANGED <<resources, roles>>
     /\ UNCHANGED <<flowVars, loginVars, tenantVars, otpVars>>

\* RoleService.assign_role(credentials_id, role_id): the role is stored and
\* not yet assigned, else the request fails
AssignRole(assigned, role_id) ==
  IF role_id \in DOMAIN roles /\ role_id \notin assigned
    THEN [ok |-> TRUE, roles |-> assigned \cup {role_id}]
    ELSE [ok |-> FALSE, roles |-> assigned]

\* RoleService.unassign_role(credentials_id, role_id): the role is assigned,
\* else the request fails
UnassignRole(assigned, role_id) ==
  IF role_id \in assigned
    THEN [ok |-> TRUE, roles |-> assigned \ {role_id}]
    ELSE [ok |-> FALSE, roles |-> assigned]

\* Lines 101-126: POST /role_assign/{credentials_id}/{tenant}/{role_name}
assign_role(session, tenant, credentials_id, role_name) ==
  LET role_id == RoleIdFormat(tenant, role_name)
      assign == AssignRole(assignedRoles[credentials_id], role_id)
  IN /\ IF \/ ~has_resource_access(session.Authz, tenant, "authz:tenant:admin")
           \/ tenant = "*" /\ ~is_superuser(session.Authz)
          THEN /\ Respond(RolesReply("assign_role", "403"), <<>>)
               /\ UNCHANGED assignedRoles
          ELSE /\ assignedRoles' = [assignedRoles EXCEPT ![credentials_id] = assign.roles]
               /\ Respond(RolesReply("assign_role",
                                     IF assign.ok THEN "OK" ELSE "error"), <<>>)
     /\ UNCHANGED <<resources, roles>>
     /\ UNCHANGED <<flowVars, loginVars, tenantVars, otpVars>>

\* Lines 129-153: DELETE /role_assign/{credentials_id}/{tenant}/{role_name}
unassign_role(session, tenant, credentials_id, role_name) ==
  LET role_id == RoleIdFormat(tenant, role_name)
      unassign == UnassignRole(assignedRoles[credentials_id], role_id)
  IN /\ IF \/ ~has_resource_access(session.Authz, tenant, "authz:tenant:admin")
           \/ tenant = "*" /\ ~is_superuser(session.Authz)
          THEN /\ Respond(RolesReply("unassign_role", "403"), <<>>)
               /\ UNCHANGED assignedRoles
          ELSE /\ assignedRoles' = [assignedRoles EXCEPT ![credentials_id] = unassign.roles]
               /\ Respond(RolesReply("unassign_role",
                                     IF unassign.ok THEN "OK" ELSE "error"), <<>>)
     /\ UNCHANGED <<resources, roles>>
     /\ UNCHANGED <<flowVars, loginVars, tenantVars, otpVars>>

\* The credentials whose roles the requests set
RoleCredentials == {"zed"}

\* The role lists of the set_roles requests
RequestedRoles ==
  { {}, {"*/admin"}, {"*/admin", "acme/editor"}, {"beta/editor"},
    {"acme/admin"}, {"beta/admin"} }

\* The stored roles, and credentials that hold a global role and roles of
\* tenants, or no role at all
InitRoles ==
  /\ roles = [role_id \in {"*/admin", "acme/admin", "acme/editor", "beta/editor"} |->
                IF role_id = "*/admin" THEN {"authz:superuser"} ELSE {"blog:read"}]
  /\ \E assigned \in {{}, {"*/admin", "acme/editor"}} :
       assignedRoles = [cid \in CredentialIds |->
                          IF cid = "zed" THEN assigned ELSE {}]
  /\ resources = <<>>
  /\ InitTenantVars /\ InitOtpVars
  /\ loginSessions = <<>>
  /\ lsidSeq = 0
  /\ authenticateCalls = [ls \in LSID |-> 0]
  /\ requests = EmptyBag
  /\ reply = Reply("none", "NONE")
  /\ now = 0
  /\ sidSeq = 0
  /\ sessions = <<>>
  /\ codes = <<>>
  /\ codeSeq = 0
  /\ audit = <<>>

NextRoles ==
  \/ \E session \in RequesterSessions, tenant \in RoleTenants,
        credentials_id \in RoleCredentials, requested_roles \in RequestedRoles :
       set_roles(session, tenant, credentials_id, requested_roles)
  \/ \E session \in RequesterSessions, tenant \in RoleTenants,
        credentials_id \in RoleCredentials, role_name \in RoleNames :
       assign_role(session, tenant, credentials_id, role_name)
  \/ \E session \in RequesterSessions, tenant \in RoleTenants,
        credentials_id \in RoleCredentials, role_name \in RoleNames :
       unassign_role(session, tenant, credentials_id, role_name)

SpecRoles == InitRoles /\ [][NextRoles]_vars

(***************************************************************************)
(* Properties of the roles handler (checked under SpecRoles)               *)
(***************************************************************************)
\* The requester is not superuser: neither the resources handed to the
\* handler nor the global scope of the session hold authz:superuser
NotSuperuser(session, tenant) ==
  /\ "authz:superuser" \notin RequesterResources(session.Authz, tenant)
  /\ ~is_superuser(session.Authz)

\* The global roles of all credentials stay as they are
GlobalRolesUnchanged ==
  \A cid \in CredentialIds :
    RolesOfTenants(assignedRoles'[cid], {"*"})
      = RolesOfTenants(assignedRoles[cid], {"*"})

\* The roles outside of the tenant stay as they are, for all credentials
RolesOutsideUnchanged(tenant) ==
  \A cid \in CredentialIds :
    assignedRoles'[cid] \ RolesOfTenants(assignedRoles'[cid], {tenant})
      = assignedRoles[cid] \ RolesOfTenants(assignedRoles[cid], {tenant})

\* C28: a set_roles, assign_role or unassign_role request of a requester
\* that is not superuser changes no global role assignment; with tenant "*"
\* it is answered 403 and changes no assignment at all, and set_roles with a
\* named tenant changes only the roles of that tenant.  A set_roles request
\* of a superuser that succeeds leaves the credentials with exactly the
\* requested global roles.
C28_GlobalRolesNeedSuperuser ==
  [][\A session \in RequesterSessions, tenant \in RoleTenants,
        credentials_id \in RoleCredentials :
       /\ \A requested_roles \in RequestedRoles :
            set_roles(session, tenant, credentials_id, requested_roles)
            => IF NotSuperuser(session, tenant)
                 THEN /\ GlobalRolesUnchanged
                      /\ tenant = "*" => /\ reply'.status = "403"
                                         /\ assignedRoles' = assignedRoles
                      /\ tenant # "*" => RolesOutsideUnchanged(tenant)
                 ELSE reply'.status = "OK"
                      => RolesOfTenants(assignedRoles'[credentials_id], {"*"})
                           = RolesOfTenants(requested_roles, {"*"})
       /\ \A role_name \in RoleNames :
            ( /\ NotSuperuser(session, tenant)
              /\ \/ assign_role(session, tenant, credentials_id, role_name)
                 \/ unassign_role(session, tenant, credentials_id, role_name) )
            => /\ GlobalRolesUnchanged
               /\ tenant = "*" => /\ reply'.status = "403"
                                  /\ assignedRoles' = assignedRoles
    ]_vars

\* C28 witness: a set_roles request was refused with 403 while the
\* credentials hold a global role and roles of two tenants that requests
\* assigned
C28_Witness ==
  /\ reply = RolesReply("set_roles", "403")
  /\ {"*/admin", "acme/admin", "beta/editor"} \subseteq assignedRoles["zed"]

(***************************************************************************)
(* OTPService (otp/service.py)                                             *)
(***************************************************************************)
\* [seacatauth:otp] registration_timeout, in ticks of the clock
RegistrationTimeout == 1

\* The values of pyotp.random_base32()
TotpSecrets == {"s1", "s2"}

\* The sessions that prepare and activate TOTP
TotpSessionIds == {1, 2}

\* The credentials of the requests
TotpCredentials == {"alice", "robot"}

\* credentials["__totp"]: the secret kept in the credentials by earlier
\* versions (None: the empty set)
CredentialsTotp == [cid \in CredentialIds |-> IF cid = "robot" THEN {"s0"} ELSE {}]

\* The OTP of a request: the code that one of the secrets generates at the
\* time of the request, or another text
RequestOtps == TotpSecrets \cup {"wrong"}

\* pyotp.TOTP(secret).verify(request_otp)
TotpVerify(secret, request_otp) == request_otp = secret

\* Lines 150-167: _get_totp_secret_by_credentials_id, the secret of the
\* TOTP collection, else the one of the credentials (None: the empty set)
get_totp_secret_by_credentials_id(credentials_id) ==
  IF totp[credentials_id] # {} THEN totp[credentials_id]
  ELSE CredentialsTotp[credentials_id]

\* Lines 189-196
has_activated_totp(credentials_id) ==
  get_totp_secret_by_credentials_id(credentials_id) # {}

\* The prepared secret is taken as it is stored, expired or not
PreparedSecretFound_unchecked(session_id) ==
  session_id \in DOMAIN preparedTotp

\* Lines 138-148: _get_prepared_totp_secret_by_session_id raises KeyError
\* when no secret is stored for the session or the stored one has expired
PreparedSecretFound(session_id) ==
  /\ session_id \in DOMAIN preparedTotp
  /\ ~(preparedTotp[session_id].exp < now)

\* A reply of the OTP service: "OK" or the exception that left it
TotpReply(op, result) == [op |-> op, result |-> result]

\* Lines 60-78 and 113-135: prepare_totp, _create_totp_secret.  The secret
\* of the session is deleted if there is one, and a new one is stored with
\* its expiration.
prepare_totp(session_id, secret) ==
  /\ preparedTotp' =
       [sid \in DOMAIN preparedTotp \cup {session_id} |->
          IF sid = session_id
            THEN [exp |-> now + RegistrationTimeout, secret |-> secret]
            ELSE preparedTotp[sid]]
  /\ Respond(TotpReply("prepare_totp", "OK"), <<>>)
  /\ UNCHANGED <<totp, flowVars, loginVars, tenantVars, rbacVars>>

\* Lines 80-101 of activate_prepared_totp: the three tests
activate_prepared_totp(session_id, credentials_id, request_otp) ==
  /\ MayStart
  /\ IF \/ has_activated_totp(credentials_id)
        \/ ~PreparedSecretFound(session_id)
        \/ ~TotpVerify(preparedTotp[session_id].secret, request_otp)
       THEN /\ Respond(TotpReply("activate_prepared_totp",
                                 ExceptionNamed("TOTPActivationError")), <<>>)
            /\ UNCHANGED requests
       ELSE /\ requests' = Add(requests,
                 [op |-> "activate_totp", pc |-> "store",
                  session_id |-> session_id, credentials_id |-> credentials_id,
                  secret |-> preparedTotp[session_id].secret])
            /\ NoReply
  /\ UNCHANGED <<sessions, sidSeq, codes, codeSeq, now>>
  /\ UNCHANGED <<loginVars, adminVars>>

\* Lines 103-107: the secret is inserted under the id of the credentials
\* (an upsertor without version inserts; DuplicateError when a document of
\* that id is stored)
activate_store(f) ==
  /\ BagIn(f, requests) /\ f.op = "activate_totp" /\ f.pc = "store"
  /\ IF totp[f.credentials_id] # {}
       THEN /\ requests' = Remove(requests, f)
            /\ Respond(TotpReply("activate_prepared_totp", "DuplicateError"), <<>>)
            /\ UNCHANGED totp
       ELSE /\ totp' = [totp EXCEPT ![f.credentials_id] = {f.secret}]
            /\ requests' = Replace(requests, f, [f EXCEPT !.pc = "delete"])
            /\ NoReply
  /\ UNCHANGED <<preparedTotp, sessions, sidSeq, codes, codeSeq, now>>
  /\ UNCHANGED <<loginVars, tenantVars, rbacVars>>

\* Lines 109 and 169-174: the prepared secret of the session is deleted
\* (KeyError when it is not stored)
activate_delete(f) ==
  /\ BagIn(f, requests) /\ f.op = "activate_totp" /\ f.pc = "delete"
  /\ requests' = Remove(requests, f)
  /\ IF f.session_id \in DOMAIN preparedTotp
       THEN /\ preparedTotp' = [sid \in DOMAIN preparedTotp \ {f.session_id} |->
                                  preparedTotp[sid]]
            /\ Respond(TotpReply("activate_prepared_totp", "OK"), <<>>)
       ELSE /\ UNCHANGED preparedTotp
            /\ Respond(TotpReply("activate_prepared_totp", "KeyError"), <<>>)
  /\ UNCHANGED <<totp, sessions, sidSeq, codes, codeSeq, now>>
  /\ UNCHANGED <<loginVars, tenantVars, rbacVars>>

\* Lines 35-36 and 177-187: housekeeping deletes the expired secrets
delete_expired_totp_secrets ==
  /\ \E sid \in DOMAIN preparedTotp : preparedTotp[sid].exp < now
  /\ preparedTotp' = [sid \in {s \in DOMAIN preparedTotp :
                                 ~(preparedTotp[s].exp < now)} |->
                        preparedTotp[sid]]
  /\ UNCHANGED <<totp, reply, audit, flowVars, loginVars, tenantVars, rbacVars>>

\* At startup one session may hold a prepared secret, which expires with
\* the first tick of the clock
InitTotp ==
  /\ totp = [cid \in CredentialIds |-> {}]
  /\ \E prepared \in BOOLEAN :
       preparedTotp = [sid \in (IF prepared THEN {1} ELSE {}) |->
                         [exp |-> 0, secret |-> "s1"]]
  /\ InitTenantVars /\ InitRbacVars
  /\ loginSessions = <<>>
  /\ lsidSeq = 0
  /\ authenticateCalls = [ls \in LSID |-> 0]
  /\ requests = EmptyBag
  /\ reply = Reply("none", "NONE")
  /\ now = 0
  /\ sidSeq = 0
  /\ sessions = <<>>
  /\ codes = <<>>
  /\ codeSeq = 0
  /\ audit = <<>>

NextTotp ==
  \/ \E session_id \in TotpSessionIds, secret \in TotpSecrets :
       prepare_totp(session_id, secret)
  \/ \E session_id \in TotpSessionIds, credentials_id \in TotpCredentials,
        request_otp \in RequestOtps :
       activate_prepared_totp(session_id, credentials_id, request_otp)
  \/ \E f \in BagToSet(requests) : activate_store(f)
  \/ \E f \in BagToSet(requests) : activate_delete(f)
  \/ delete_expired_totp_secrets
  \/ Tick

SpecTotp == InitTotp /\ [][NextTotp]_vars

(***************************************************************************)
(* Properties of the OTP service (checked under SpecTotp)                  *)
(***************************************************************************)
\* An activate_prepared_totp request ends in this step
ActivationEnds ==
  /\ reply'.op = "activate_prepared_totp"
  /\ \/ reply' # reply
     \/ BagCardinality(requests') < BagCardinality(requests)

\* C30: an active secret is stored for credentials only by an activation
\* that found TOTP not active, a prepared and unexpired secret of its session
\* and an OTP that verifies against it; an activation that succeeds leaves
\* no prepared secret of its session, and one that fails ends with
\* TOTPActivationError and leaves the active secrets as they were at its
\* start.
C30_ActivationOnlyWhenVerified ==
  [][/\ \A cid \in CredentialIds :
          totp'[cid] # totp[cid]
          => /\ ~has_activated_totp(cid)
             /\ \E f \in BagToSet(requests) :
                  /\ f.op = "activate_totp" /\ f.credentials_id = cid
                  /\ totp'[cid] = {f.secret}
     /\ ActivationEnds
        => \/ /\ reply'.result = "OK"
              /\ \E f \in BagToSet(requests) :
                   /\ f.op = "activate_totp" /\ ~BagIn(f, requests')
                   /\ f.session_id \notin DOMAIN preparedTotp'
                   /\ totp'[f.credentials_id] = {f.secret}
           \/ /\ reply'.result = "TOTPActivationError"
              /\ totp' = totp
              /\ \A f \in BagToSet(requests) :
                   (f.op = "activate_totp" /\ ~BagIn(f, requests'))
                   => f.pc = "store"
    ]_vars

\* C31: an activation goes on to store a secret only when, at its read, the
\* prepared secret of its session is stored with an expiry time that has not
\* passed, whether or not housekeeping has run; and a prepared secret leaves
\* the collection only when its expiry time has passed or when the
\* activation of its session deletes it.
C31_ExpiredSecretNeverActivates ==
  [][/\ \A f \in BagToSet(requests') :
          ( /\ f.op = "activate_totp" /\ f.pc = "store"
            /\ CopiesIn(f, requests') > CopiesIn(f, requests) )
          => /\ f.session_id \in DOMAIN preparedTotp
             /\ preparedTotp[f.session_id].exp >= now
             /\ preparedTotp[f.session_id].secret = f.secret
     /\ \A sid \in DOMAIN preparedTotp \ DOMAIN preparedTotp' :
          \/ preparedTotp[sid].exp < now
          \/ \E f \in BagToSet(requests) :
               /\ f.op = "activate_totp" /\ f.pc = "delete"
               /\ f.session_id = sid
               /\ CopiesIn(f, requests') < CopiesIn(f, requests)
    ]_vars

\* C31 witness: an activation was refused while the only prepared secrets
\* in the collection are expired ones that housekeeping has not removed,
\* and no TOTP is active
C31_Witness ==
  /\ reply = TotpReply("activate_prepared_totp", ExceptionNamed("TOTPActivationError"))
  /\ DOMAIN preparedTotp # {}
  /\ \A sid \in DOMAIN preparedTotp : preparedTotp[sid].exp < now
  /\ \A cid \in CredentialIds : totp[cid] = {}

(***************************************************************************)
(* M2MIntrospectHandler (authn/m2m.py)                                     *)
(***************************************************************************)
\* The text that the Basic token encodes, as its pieces between and
\* including the colons; <<"0xff">>: bytes that are not ASCII
M2MTexts ==
  { <<"robot", ":", "key", ":", "1">>,    \* the password of robot, "key:1"
    <<"robot", ":", "key">>,
    <<"alice", ":", "key", ":", "1">>,
    <<"nobody", ":", "key", ":", "1">>,
    <<"robot">>,
    <<"0xff">> }

\* The bodies of the introspection requests (the Authorization header that
\* the proxy hands over): nothing, another scheme, "Basic " followed by the
\* base64 encoding of a text, or "Basic " followed by what base64 rejects
M2MBodies ==
  [scheme : {"Basic"}, base64 : {TRUE}, text : M2MTexts]
    \cup { [scheme |-> NONE, base64 |-> FALSE, text |-> <<>>],
           [scheme |-> "Bearer", base64 |-> FALSE, text |-> <<>>],
           [scheme |-> "Basic", base64 |-> FALSE, text |-> <<>>] }

\* The password that the m2m provider stores for robot
M2MPassword == <<"key", ":", "1">>

\* text.split(":", 1): the pieces before and after the first colon, or the
\* text alone when it has no colon
SplitOnce(text) ==
  IF \E i \in DOMAIN text : text[i] = ":"
    THEN LET i == CHOOSE i \in DOMAIN text :
                    /\ text[i] = ":"
                    /\ \A j \in 1 .. i - 1 : text[j] # ":"
         IN <<SubSeq(text, 1, i - 1), SubSeq(text, i + 1, Len(text))>>
    ELSE <<text>>

\* Lines 39-41: the exception that reading the Basic token raises, or NONE
BasicTokenError(body) ==
  IF ~body.base64 THEN "binascii.Error"
  ELSE IF body.text = <<"0xff">> THEN "UnicodeDecodeError"
  ELSE IF Len(SplitOnce(body.text)) # 2 THEN "ValueError"
  ELSE NONE

\* Lines 46-68: the credentials that the username and password of the token
\* authenticate ("": locate finds none, the provider is not of type m2m, or
\* provider.authenticate refuses the password)
M2MAuthenticated(body) ==
  LET username_password == SplitOnce(body.text)
      username == username_password[1]
      password == username_password[2]
      credentials_id == IF Len(username) = 1 THEN Locate(username[1]) ELSE ""
  IN IF /\ credentials_id # ""
        /\ Credentials[credentials_id].Type = "m2m"
        /\ password = M2MPassword
       THEN credentials_id
       ELSE ""

\* The reply of POST /m2m/nginx: its status, whether it has the header
\* WWW-Authenticate, and the session it reports (0: none); an exception that
\* leaves the handler is the status "ERROR"
M2MReply(status, www_authenticate, session) ==
  [op |-> "nginx", status |-> status, www_authenticate |-> www_authenticate,
   session |-> session]

\* Lines 34-74 and 130-145: the request is read and authenticated, and the
\* session of the credentials is looked up
nginx(body) ==
  /\ MayStart
  /\ IF body.scheme # "Basic"
       THEN /\ Respond(M2MReply("401", TRUE, 0), <<>>)
            /\ UNCHANGED requests
     ELSE IF BasicTokenError(body) # NONE
       THEN /\ Respond(M2MReply("ERROR", FALSE, 0), <<>>)
            /\ UNCHANGED requests
     ELSE IF M2MAuthenticated(body) = ""
       THEN /\ Respond(M2MReply("401", TRUE, 0), <<>>)
            /\ UNCHANGED requests
     ELSE LET credentials_id == M2MAuthenticated(body)
              found == {sid \in DOMAIN sessions :
                          sessions[sid].CredentialsId = credentials_id}
          IN /\ IF found = {}
                  THEN requests' = Add(requests,
                         [op |-> "nginx", pc |-> "create",
                          credentials_id |-> credentials_id, session |-> 0])
                  ELSE \E sid \in found :
                         requests' = Add(requests,
                           [op |-> "nginx", pc |-> "introspect",
                            credentials_id |-> credentials_id, session |-> sid])
             /\ NoReply
  /\ UNCHANGED <<sessions, sidSeq, codes, codeSeq, now>>
  /\ UNCHANGED <<loginVars, adminVars>>

\* Lines 76-99: no session was found, create_m2m_session makes one (or
\* returns None, and authenticate_request returns None)
nginx_create_m2m_session(f, created) ==
  /\ BagIn(f, requests) /\ f.op = "nginx" /\ f.pc = "create"
  /\ sidSeq < MaxSessions
  /\ IF created
       THEN /\ sidSeq' = sidSeq + 1
            /\ sessions' = [sid \in DOMAIN sessions \cup {sidSeq + 1} |->
                              IF sid = sidSeq + 1
                                THEN NewM2MSession(f.credentials_id)
                                ELSE sessions[sid]]
            /\ requests' = Replace(requests, f,
                 [f EXCEPT !.pc = "introspect", !.session = sidSeq + 1])
            /\ NoReply
       ELSE /\ requests' = Remove(requests, f)
            /\ Respond(M2MReply("401", TRUE, 0), <<>>)
            /\ UNCHANGED <<sessions, sidSeq>>
  /\ UNCHANGED <<codes, codeSeq, now>>
  /\ UNCHANGED <<loginVars, adminVars>>

\* Lines 133-145: nginx_introspection builds the reply for the session, or
\* fails and the reply is HTTPUnauthorized
nginx_introspection(f, passed) ==
  /\ BagIn(f, requests) /\ f.op = "nginx" /\ f.pc = "introspect"
  /\ requests' = Remove(requests, f)
  /\ IF passed
       THEN Respond(M2MReply("200", FALSE, f.session), <<>>)
       ELSE Respond(M2MReply("401", TRUE, 0), <<>>)
  /\ UNCHANGED <<sessions, sidSeq, codes, codeSeq, now>>
  /\ UNCHANGED <<loginVars, adminVars>>

\* At startup the machine has a session from an earlier request, or none
InitM2M ==
  /\ InitAdmin
  /\ loginSessions = <<>>
  /\ lsidSeq = 0
  /\ authenticateCalls = [ls \in LSID |-> 0]
  /\ requests = EmptyBag
  /\ reply = Reply("none", "NONE")
  /\ now = 0
  /\ \E k \in 0 .. 1 :
       /\ sidSeq = k
       /\ sessions = [sid \in 1 .. k |-> NewM2MSession("robot")]
  /\ codes = <<>>
  /\ codeSeq = 0
  /\ audit = <<>>

NextM2M ==
  \/ \E body \in M2MBodies : nginx(body)
  \/ \E f \in BagToSet(requests), created \in BOOLEAN :
       nginx_create_m2m_session(f, created)
  \/ \E f \in BagToSet(requests), passed \in BOOLEAN :
       nginx_introspection(f, passed)
  \/ Tick

SpecM2M == InitM2M /\ [][NextM2M]_vars

(***************************************************************************)
(* Properties of M2M introspection (checked under SpecM2M)                 *)
(***************************************************************************)
\* The body carries Basic credentials whose username locates credentials of
\* a provider of type m2m and whose password that provider authenticates
ValidBasicCredentials(body) ==
  /\ body.scheme = "Basic" /\ body.base64
  /\ \E i \in DOMAIN body.text :
       /\ body.text[i] = ":"
       /\ i = 2
       /\ body.text[1] \in CredentialIds
       /\ Credentials[body.text[1]].Type = "m2m"
       /\ SubSeq(body.text, 3, Len(body.text)) = M2MPassword

\* C32: an introspection request whose body does not carry valid Basic
\* credentials of a machine is answered 401 with the header
\* WWW-Authenticate and neither creates nor looks up a session; a session is
\* created only for a request that carried such credentials, and every
\* reply is either 200 with a stored session of machine credentials or 401
\* with the header.
C32_IntrospectionPassesOnlyAuthenticated ==
  [][/\ \A body \in M2MBodies :
          nginx(body)
          => IF ValidBasicCredentials(body)
               THEN /\ BagCardinality(requests') = BagCardinality(requests) + 1
                    /\ \A f \in BagToSet(requests') : f.op = "nginx" =>
                         Credentials[f.credentials_id].Type = "m2m"
               ELSE /\ reply' = M2MReply("401", TRUE, 0)
                    /\ UNCHANGED <<sessions, requests>>
     /\ \A sid \in DOMAIN sessions' \ DOMAIN sessions :
          \E f \in BagToSet(requests) :
            /\ f.op = "nginx" /\ f.pc = "create"
            /\ sessions'[sid].CredentialsId = f.credentials_id
     /\ (reply' # reply /\ reply'.op = "nginx")
        => \/ /\ reply'.status = "200" /\ ~reply'.www_authenticate
              /\ reply'.session \in DOMAIN sessions'
              /\ Credentials[sessions'[reply'.session].CredentialsId].Type = "m2m"
           \/ reply' = M2MReply("401", TRUE, 0)
    ]_vars

\* C37: at most one session of the credentials of a machine is stored,
\* whatever introspection requests have run and however they interleave
C37_AtMostOneM2MSession ==
  \A cid \in CredentialIds :
    Cardinality({sid \in DOMAIN sessions :
                   sessions[sid].CredentialsId = cid}) <= 1

(***************************************************************************)
(* The authorize flow from the first check to the authorization code       *)
(***************************************************************************)
\* create_anonymous_session: the root session of an anonymous login
NewAnonymousSession(cid) == [NewRootSession(cid) EXCEPT !.IsAnonymous = TRUE]

\* What the requests of this specification read: tenants granted or denied,
\* a login with or without the factor that the application enforces
FlowReads ==
  {reads \in [access_granted : BOOLEAN, tenants : {{"acme"}},
              login_factors : {{}, {"totp"}}, cred_enforce_factors : {{}}] :
     ~reads.access_granted => reads.login_factors = {}}

\* Storage holds the root session of a login, anonymous or not
InitFlow ==
  /\ InitAdmin
  /\ loginSessions = <<>>
  /\ lsidSeq = 0
  /\ authenticateCalls = [ls \in LSID |-> 0]
  /\ requests = EmptyBag
  /\ reply = Reply("none", "NONE")
  /\ now = 0
  /\ sidSeq = 1
  /\ \/ sessions = [sid \in {1} |-> NewRootSession("alice")]
     \/ sessions = [sid \in {1} |-> NewAnonymousSession("alice")]
  /\ codes = <<>>
  /\ codeSeq = 0
  /\ audit = <<>>

\* Authorize requests that fail a check of lines 172-335 and requests that
\* pass them all
NextFlow ==
  \/ \E fault \in Faults : authorize(fault, RedirectUri, NONE)
  \/ StartAuthenticationCodeFlow(PlainRequests, FlowReads, {NONE})
  \/ \E f \in BagToSet(requests) : authentication_code_flow_prompt_login(f)
  \/ \E f \in BagToSet(requests) : create_cookie_client_session(f)
  \/ \E f \in BagToSet(requests), cookie_scope \in BOOLEAN : create_session(f, cookie_scope)
  \/ \E f \in BagToSet(requests) : reply_with_successful_response(f)

SpecFlow == InitFlow /\ [][NextFlow]_vars

(***************************************************************************)
(* Properties of the order of the authorize flow (checked under SpecFlow)  *)
(***************************************************************************)
\* The session is stored, of type root, and not the session of an anonymous
\* login that the client does not authorize
PresentedRootSession(session) ==
  /\ session \in DOMAIN sessions
  /\ sessions[session].Type = "root"
  /\ sessions[session].IsAnonymous => AuthorizeAnonymousUsers

\* C34: a request that fails a check of parameters, client, PKCE or scope
\* starts nothing and creates nothing; a request goes on to create a client
\* session only when the session it presents is a usable root session, its
\* tenants are granted and no factor is to be set up; a presented session
\* that is not usable is treated like no session; a session is created only
\* by such a request, as a child of its root session, and a code is minted
\* only for the session that the same request has created.
C34_CodeOnlyAfterAllChecks ==
  [][/\ \A fault \in Faults :
          authorize(fault, RedirectUri, NONE)
          => UNCHANGED <<requests, sessions, sidSeq, codes, codeSeq>>
     /\ \A request \in PlainRequests, reads \in FlowReads \cup {DefaultReads} :
          /\ ( /\ authentication_code_flow(request, reads)
               /\ \E g \in BagToSet(requests') : StepTo(g) /\ g.pc = "create" )
             => /\ PresentedRootSession(request.session)
                /\ request.prompt \in {NONE, "none"}
                /\ reads.access_granted
                /\ _get_factors_to_setup(reads.login_factors,
                                         reads.cred_enforce_factors) = {}
                /\ \A g \in BagToSet(requests') :
                     StepTo(g) => g.root_session = request.session
                /\ UNCHANGED <<sessions, sidSeq, codes, codeSeq>>
          /\ (request.session # 0 /\ ~PresentedRootSession(request.session))
             => ( authentication_code_flow(request, reads)
                  <=> authentication_code_flow([request EXCEPT !.session = 0], reads) )
     /\ \A sid \in DOMAIN sessions' \ DOMAIN sessions :
          \E f \in BagToSet(requests) :
            /\ StepOf(f) /\ f.op = "authorize" /\ f.pc = "insert"
            /\ sessions'[sid].ParentSessionId = f.parent_session_id
            /\ sessions'[sid].Type \in {"cookie", "openidconnect"}
            /\ \E g \in BagToSet(requests') :
                 StepTo(g) /\ g.pc = "code" /\ g.session = sid
     /\ \A c \in DOMAIN codes' \ DOMAIN codes :
          \E f \in BagToSet(requests) :
            /\ StepOf(f) /\ f.op = "authorize" /\ f.pc = "code"
            /\ codes'[c] = f.session
            /\ CopiesIn(f, requests) = 1
            /\ \A d \in DOMAIN codes : codes[d] # f.session
     /\ \A f \in BagToSet(requests) :
          (f.op = "authorize" /\ f.pc \in {"create", "insert"})
          => LET parent == IF f.pc = "create" THEN f.root_session
                           ELSE f.parent_session_id
             IN parent \in DOMAIN sessions => PresentedRootSession(parent)
    ]_vars

\* C34 witness: a code is stored for a client session of a root session
\* while a session that is not a root session's is stored too, and no
\* request is in flight
C34_Witness ==
  /\ requests = EmptyBag
  /\ \E c \in DOMAIN codes :
       /\ codes[c] \in DOMAIN sessions
       /\ sessions[codes[c]].Type \in {"cookie", "openidconnect"}
       /\ sessions[codes[c]].ParentSessionId \in DOMAIN sessions
       /\ PresentedRootSession(sessions[codes[c]].ParentSessionId)

(***************************************************************************)
(* A client that follows the redirects of the authorize error replies      *)
(***************************************************************************)
\* Lines 690-697: the error reply built without redirect_uri redirects to
\* PublicApiBaseUrl + AuthorizePath, the authorize endpoint itself
RedirectsToAuthorize(r) ==
  /\ r.op = "authorize"
  /\ r.result = "AUTH_ERROR"
  /\ r.location = "/openidconnect/authorize"

\* The client follows such a redirect: the query of its location holds
\* error, error_description and state (lines 678-685) and none of scope,
\* client_id, response_type, redirect_uri, so the request fails the check of
\* lines 172-182, without redirect_uri and with the state of the query
follow_redirect ==
  /\ RedirectsToAuthorize(reply)
  /\ authorize("missing_parameter", NONE, reply.state)

NextRedirect ==
  \/ NextAuthorize
  \/ follow_redirect

SpecRedirect == InitSession /\ [][NextRedirect]_vars

\* C36: a client that follows the redirect of an error reply built without
\* redirect_uri is not answered with another redirect to the authorize
\* endpoint.
C36_FollowedRedirectEnds ==
  [][follow_redirect => ~RedirectsToAuthorize(reply')]_vars

(***************************************************************************)
(* TenantService.set_tenants                                               *)
(***************************************************************************)
\* ResourceId.TENANT_ASSIGN
TENANT_ASSIGN == "seacat:tenant:assign"

\* The sessions that send the requests: a superuser, and credentials that
\* hold the resource in the tenant acme only
SetTenantsSessions ==
  { [CredentialsId |-> "robot",
     Authz |-> [s \in RoleTenants |-> IF s = "*" THEN {"authz:superuser"} ELSE {}]],
    [CredentialsId |-> "alice",
     Authz |-> [s \in RoleTenants |-> IF s = "acme" THEN {TENANT_ASSIGN} ELSE {}]] }

\* The credentials ids of the requests: stored credentials, and an id that
\* cred_svc.detail does not find
SetTenantsCredentials == {"zed", "nobody"}

\* The lists "tenants" of the requests; ghost is not a stored tenant
SetTenantsLists ==
  {<<>>, <<"acme">>, <<"beta">>, <<"acme", "beta">>, <<"acme", "ghost">>,
   <<"beta", "ghost">>}

SetTenantsReply(result, credentials_id, tenant_list) ==
  [op |-> "set_tenants", result |-> result, credentials_id |-> credentials_id,
   tenants |-> tenant_list]

\* tenant/handler.py 158-174 and tenant/service.py 178-198: PUT
\* /tenant_assign/{credentials_id}; cred_svc.detail, then the tenants
\* assigned now and the differences with the requested list
set_tenants(session, credentials_id, tenant_list) ==
  /\ MayStart
  /\ IF credentials_id \notin CredentialIds
       THEN /\ Respond(SetTenantsReply("NOT-FOUND", credentials_id, tenant_list), <<>>)
            /\ UNCHANGED requests
       ELSE LET existing_tenants == Range(assignments[credentials_id])
                new_tenants == Range(tenant_list)
            IN /\ requests' = Add(requests,
                    [op |-> "set_tenants", pc |-> "check", session |-> session,
                     credentials_id |-> credentials_id, tenants |-> tenant_list,
                     tenants_to_assign |-> new_tenants \ existing_tenants,
                     tenants_to_unassign |-> existing_tenants \ new_tenants])
               /\ NoReply
  /\ UNCHANGED <<sessions, sidSeq, codes, codeSeq, now>>
  /\ UNCHANGED <<loginVars, adminVars>>

\* What the loops of lines 200-237 return: they go through the sets in any
\* order and return at the first tenant that is not stored or that the
\* session may not assign; "OK": both loops end
SetTenantsChecks(f) ==
  LET may_assign(tenant) ==
        has_resource_access(f.session.Authz, tenant, TENANT_ASSIGN)
      not_found == {t \in f.tenants_to_assign : t \notin tenants}
      not_authorized == {t \in f.tenants_to_assign : t \in tenants /\ ~may_assign(t)}
  IN IF not_found \cup not_authorized # {}
       THEN (IF not_found # {} THEN {"NOT-FOUND"} ELSE {})
            \cup (IF not_authorized # {} THEN {"NOT-AUTHORIZED"} ELSE {})
     ELSE IF \E t \in f.tenants_to_unassign : ~may_assign(t)
       THEN {"NOT-AUTHORIZED"}
     ELSE {"OK"}

\* tenant/service.py 200-237: the checks of the tenants to assign and to
\* unassign
set_tenants_check(f, result) ==
  /\ BagIn(f, requests) /\ f.op = "set_tenants" /\ f.pc = "check"
  /\ result \in SetTenantsChecks(f)
  /\ IF result = "OK"
       THEN /\ requests' = Replace(requests, f, [f EXCEPT !.pc = "apply"])
            /\ NoReply
       ELSE /\ requests' = Remove(requests, f)
            /\ Respond(SetTenantsReply(result, f.credentials_id, f.tenants), <<>>)
  /\ UNCHANGED <<sessions, sidSeq, codes, codeSeq, now>>
  /\ UNCHANGED <<loginVars, adminVars>>

\* tenant/service.py 239-245 and 265-311: assign_tenant for one of the
\* tenants to assign.  get_tenant and TenantProvider.assign_tenant raise
\* when the tenant is not stored or already assigned, or when storage fails
\* (failed); set_tenants counts the exception and goes on.  No base role of
\* tenants is configured.
set_tenants_assign(f, tenant, failed) ==
  /\ BagIn(f, requests) /\ f.op = "set_tenants" /\ f.pc = "apply"
  /\ tenant \in f.tenants_to_assign
  /\ requests' = Replace(requests, f,
       [f EXCEPT !.tenants_to_assign = f.tenants_to_assign \ {tenant}])
  /\ IF \/ failed
        \/ tenant \notin tenants
        \/ tenant \in Range(assignments[f.credentials_id])
       THEN UNCHANGED assignments
       ELSE assignments' = [assignments EXCEPT
              ![f.credentials_id] = Append(assignments[f.credentials_id], tenant)]
  /\ NoReply
  /\ UNCHANGED <<sessions, sidSeq, codes, codeSeq, now>>
  /\ UNCHANGED <<loginVars, tenants, rbacVars, otpVars>>

\* tenant/service.py 247-253 and 314-328: unassign_tenant for one of the
\* tenants to unassign, after the tenants to assign: the roles of the tenant
\* are unassigned (role_svc.set_roles with no role), then the tenant.
\* failed: "roles" when set_roles raises, "provider" when
\* TenantProvider.unassign_tenant does; set_tenants counts the exception and
\* goes on.
set_tenants_unassign(f, tenant, failed) ==
  /\ BagIn(f, requests) /\ f.op = "set_tenants" /\ f.pc = "apply"
  /\ f.tenants_to_assign = {}
  /\ tenant \in f.tenants_to_unassign
  /\ requests' = Replace(requests, f,
       [f EXCEPT !.tenants_to_unassign = f.tenants_to_unassign \ {tenant}])
  /\ IF failed = "roles"
       THEN UNCHANGED assignedRoles
       ELSE assignedRoles' = [assignedRoles EXCEPT ![f.credentials_id] =
              SetRoles(assignedRoles[f.credentials_id], {}, tenant, FALSE).roles]
  /\ IF failed # "none"
       THEN UNCHANGED assignments
       ELSE assignments' = [assignments EXCEPT ![f.credentials_id] =
              SelectSeq(assignments[f.credentials_id], LAMBDA t : t # tenant)]
  /\ NoReply
  /\ UNCHANGED <<sessions, sidSeq, codes, codeSeq, now>>
  /\ UNCHANGED <<loginVars, tenants, resources, roles, otpVars>>

\* tenant/service.py 255-262: the loops have ended, whatever has failed
set_tenants_return(f) ==
  /\ BagIn(f, requests) /\ f.op = "set_tenants" /\ f.pc = "apply"
  /\ f.tenants_to_assign = {} /\ f.tenants_to_unassign = {}
  /\ requests' = Remove(requests, f)
  /\ Respond(SetTenantsReply("OK", f.credentials_id, f.tenants), <<>>)
  /\ UNCHANGED <<sessions, sidSeq, codes, codeSeq, now>>
  /\ UNCHANGED <<loginVars, adminVars>>

\* Both tenants and their editor roles are stored; zed is assigned to none
\* of the tenants, to acme, or to both, and holds the role of each
InitSetTenants ==
  /\ tenants = TenantIds
  /\ \E assigned \in {<<>>, <<"acme">>, <<"acme", "beta">>} :
       /\ assignments = [cid \in CredentialIds |->
                           IF cid = "zed" THEN assigned ELSE <<>>]
       /\ assignedRoles = [cid \in CredentialIds |->
                             IF cid = "zed"
                               THEN {RoleIdFormat(t, "editor") : t \in Range(assigned)}
                               ELSE {}]
  /\ roles = [role_id \in {"acme/editor", "beta/editor"} |-> {"blog:read"}]
  /\ resources = <<>>
  /\ InitOtpVars
  /\ loginSessions = <<>>
  /\ lsidSeq = 0
  /\ authenticateCalls = [ls \in LSID |-> 0]
  /\ requests = EmptyBag
  /\ reply = Reply("none", "NONE")
  /\ now = 0
  /\ sidSeq = 0
  /\ sessions = <<>>
  /\ codes = <<>>
  /\ codeSeq = 0
  /\ audit = <<>>

NextSetTenants ==
  \/ \E session \in SetTenantsSessions, credentials_id \in SetTenantsCredentials,
        tenant_list \in SetTenantsLists :
       set_tenants(session, credentials_id, tenant_list)
  \/ \E f \in BagToSet(requests), result \in {"OK", "NOT-FOUND", "NOT-AUTHORIZED"} :
       set_tenants_check(f, result)
  \/ \E f \in BagToSet(requests), tenant \in TenantIds, failed \in BOOLEAN :
       set_tenants_assign(f, tenant, failed)
  \/ \E f \in BagToSet(requests), tenant \in TenantIds,
        failed \in {"none", "roles", "provider"} :
       set_tenants_unassign(f, tenant, failed)
  \/ \E f \in BagToSet(requests) : set_tenants_return(f)

SpecSetTenants == InitSetTenants /\ [][NextSetTenants]_vars

(***************************************************************************)
(* Properties of set_tenants (checked under SpecSetTenants)                *)
(***************************************************************************)
\* The request has passed the checks: its credentials are stored, the
\* tenants it has yet to assign are stored, and its session holds the
\* resource for every tenant it has yet to assign or unassign
PassedChecks(f) ==
  /\ f.credentials_id \in CredentialIds
  /\ f.tenants_to_assign \subseteq tenants
  /\ \A t \in f.tenants_to_assign \cup f.tenants_to_unassign :
       has_resource_access(f.session.Authz, t, TENANT_ASSIGN)

\* The assignments change only by a request that has passed the checks, and
\* only those of its credentials
ChangedByCheckedRequest ==
  assignments' # assignments
  => \E f \in BagToSet(requests) :
       /\ StepOf(f) /\ f.op = "set_tenants" /\ f.pc = "apply"
       /\ PassedChecks(f)
       /\ \A cid \in CredentialIds \ {f.credentials_id} :
            assignments'[cid] = assignments[cid]

\* A request that is refused has changed nothing: it is refused by the step
\* that starts it or by the step of its checks
RefusedChangesNothing ==
  (reply' # reply /\ reply'.op = "set_tenants" /\ reply'.result # "OK")
  => /\ UNCHANGED <<assignments, assignedRoles>>
     /\ \/ requests' = requests
        \/ \E f \in BagToSet(requests) : StepOf(f) /\ f.pc = "check"

\* The reply OK is given when the assigned tenants are the requested ones
OkMeansRequestedTenants ==
  (reply'.op = "set_tenants" /\ reply'.result = "OK" /\ requests' # requests)
  => Range(assignments'[reply'.credentials_id]) = Range(reply'.tenants)

\* C39: set_tenants changes assignments only when the credentials and the
\* tenants to assign exist and the caller holds the tenant-assign resource
\* for every tenant to assign and unassign; a NOT-FOUND or NOT-AUTHORIZED
\* result leaves the assignments unchanged; a result OK means the assigned
\* tenants of the credentials are the requested list.
C39_SetTenantsAllOrNothing ==
  [][ChangedByCheckedRequest /\ RefusedChangesNothing /\ OkMeansRequestedTenants]_vars
====
